---- MODULE Spec2Model ----
(***************************************************************************)
(* A model of the health coach bot of src/main.py: the user table kept in  *)
(* the CSV file USER_DATA_PATH, the command handlers that read it, change  *)
(* one cell and write the whole table back, and the aggregation done by    *)
(* /health_summary, /weekly_trend and /goal_progress.                      *)
(*                                                                         *)
(* Text is a sequence of one-character strings, so that split, startswith, *)
(* the comparison of date texts and the parsing of numbers are computed as *)
(* Python computes them.  A cell of the data frame is a text or NaN.       *)
(***************************************************************************)
EXTENDS Integers, Sequences, FiniteSets, TLC

(***************************************************************************)
(* Bounds of the model.                                                    *)
(***************************************************************************)
MaxTasks == 2
MaxLog == 2
MaxDay == 9
FirstDay == 8

MaxEntries == 3

MaxTurns == 1

AggDay == 15

(***************************************************************************)
(* Python text.                                                            *)
(***************************************************************************)
\* The characters of the model in code point order (the order Python
\* compares them in).
Alphabet ==
    << " ", "+", "-", ".", "0", "1", "2", "3", "4", "5", "6", "7", "8", "9",
       ":", ";", "a", "b", "g", "k", "r", "s", "x" >>

Digits == {"0", "1", "2", "3", "4", "5", "6", "7", "8", "9"}

Ord(c) == CHOOSE i \in DOMAIN Alphabet : Alphabet[i] = c

DigitVal(c) == Ord(c) - Ord("0")

DigitChar(d) == Alphabet[Ord("0") + d]

\* a < b for two texts: lexicographic, a proper prefix is smaller.
RECURSIVE StrLess(_, _)
StrLess(a, b) ==
    IF b = <<>> THEN FALSE
    ELSE IF a = <<>> THEN TRUE
    ELSE IF Ord(Head(a)) < Ord(Head(b)) THEN TRUE
    ELSE IF Ord(Head(a)) > Ord(Head(b)) THEN FALSE
    ELSE StrLess(Tail(a), Tail(b))

\* a >= b
StrGe(a, b) == ~StrLess(a, b)

\* s.startswith(p)
StartsWith(s, p) == Len(s) >= Len(p) /\ SubSeq(s, 1, Len(p)) = p

\* s.split(c) for a separator of one element: "" gives [""].
RECURSIVE Split(_, _)
Split(s, c) ==
    IF \A i \in DOMAIN s : s[i] # c THEN << s >>
    ELSE LET i == CHOOSE k \in DOMAIN s :
                      s[k] = c /\ \A j \in 1..(k - 1) : s[j] # c
         IN  << SubSeq(s, 1, i - 1) >> \o Split(SubSeq(s, i + 1, Len(s)), c)

\* sep.join(parts)
RECURSIVE Join(_, _)
Join(parts, sep) ==
    IF parts = <<>> THEN <<>>
    ELSE IF Len(parts) = 1 THEN parts[1]
    ELSE parts[1] \o sep \o Join(Tail(parts), sep)

\* s.isdigit()
IsDigit(s) == s # <<>> /\ \A i \in DOMAIN s : s[i] \in Digits

\* s.replace('.', '')
RECURSIVE RemoveDots(_)
RemoveDots(s) ==
    IF s = <<>> THEN <<>>
    ELSE IF Head(s) = "." THEN RemoveDots(Tail(s))
    ELSE << Head(s) >> \o RemoveDots(Tail(s))

\* The value of a text of digits.
RECURSIVE DigitsValue(_)
DigitsValue(s) ==
    IF s = <<>> THEN 0
    ELSE DigitsValue(SubSeq(s, 1, Len(s) - 1)) * 10 + DigitVal(s[Len(s)])

\* int(s) succeeds: digits after an optional sign.
IsIntLiteral(s) ==
    \/ IsDigit(s)
    \/ Len(s) > 1 /\ s[1] \in {"+", "-"} /\ IsDigit(Tail(s))

\* int(s)
ParseInt(s) ==
    IF IsDigit(s) THEN DigitsValue(s)
    ELSE IF s[1] = "-" THEN 0 - DigitsValue(Tail(s))
    ELSE DigitsValue(Tail(s))

\* str(n) for n >= 0
RECURSIVE NatToStr(_)
NatToStr(n) ==
    IF n < 10 THEN << DigitChar(n) >>
    ELSE NatToStr(n \div 10) \o << DigitChar(n % 10) >>

\* str(n)
IntToStr(n) == IF n < 0 THEN << "-" >> \o NatToStr(0 - n) ELSE NatToStr(n)

\* A float is kept in tenths (7.5 is 75): the texts of the model carry at most
\* one decimal.  float(s) succeeds: digits with at most one point in them.
IsFloatLiteral(s) ==
    LET parts == Split(s, ".")
    IN  /\ Len(parts) <= 2
        /\ IsDigit(RemoveDots(s))
        /\ Len(parts) = 2 => Len(parts[2]) <= 1

\* float(s), in tenths
ParseFloat(s) ==
    LET parts == Split(s, ".")
    IN  DigitsValue(parts[1]) * 10
          + (IF Len(parts) = 2 THEN DigitsValue(parts[2]) ELSE 0)

\* str(x) of a float x >= 0 given in tenths: 8.0 prints "8.0".
FloatToStr(t) == NatToStr(t \div 10) \o << "." >> \o << DigitChar(t % 10) >>

(***************************************************************************)
(* The calendar: datetime.now(), timedelta(days=7), strftime('%Y-%m-%d').  *)
(* A day is counted from Epoch (day 0).                                    *)
(***************************************************************************)
Epoch == << 2023, 12, 24 >>

WindowDays == 7

IsLeap(y) == (y % 4 = 0 /\ y % 100 # 0) \/ y % 400 = 0

DaysInMonth(y, m) ==
    IF m = 2 THEN (IF IsLeap(y) THEN 29 ELSE 28)
    ELSE IF m \in {4, 6, 9, 11} THEN 30
    ELSE 31

NextDate(d) ==
    IF d[3] < DaysInMonth(d[1], d[2]) THEN << d[1], d[2], d[3] + 1 >>
    ELSE IF d[2] < 12 THEN << d[1], d[2] + 1, 1 >>
    ELSE << d[1] + 1, 1, 1 >>

RECURSIVE DateOf(_)
DateOf(n) == IF n = 0 THEN Epoch ELSE NextDate(DateOf(n - 1))

\* Zero padded to two digits.
Pad2(n) == IF n < 10 THEN << "0" >> \o NatToStr(n) ELSE NatToStr(n)

\* %Y-%m-%d of day n.
strftime(n) ==
    LET d == DateOf(n)
    IN  NatToStr(d[1]) \o << "-" >> \o Pad2(d[2]) \o << "-" >> \o Pad2(d[3])

(***************************************************************************)
(* The user table: the CSV file and the data frame pandas reads from it.   *)
(***************************************************************************)
\* A missing value of the data frame (float nan): not a text.
NaN == << "nan" >>

TextColumns ==
    { "name", "weight", "height", "goal", "reminders", "progress", "feedback",
      "conversation", "water_log", "sleep_log", "calorie_log", "workout_log",
      "stress_log" }

LogColumns ==
    { "water_log", "sleep_log", "calorie_log", "workout_log", "stress_log" }

\* pd.notna(v)
notna(v) == v # NaN

\* bool(v): the empty text is false; nan is true.
Truthy(v) == v # <<>>

\* The texts read_csv takes for a missing value besides the empty field (its
\* default na_values); each is kept as one element.
NaWords == {"NA", "N/A", "n/a", "NULL", "null", "NaN", "nan", "None"}

\* A field of the file read back: an empty field is nan, and so is a field
\* that holds one of the texts for a missing value.
read_cell(t) == IF t = <<>> \/ (Len(t) = 1 /\ t[1] \in NaWords) THEN NaN ELSE t

\* A cell written to the file: nan and '' both give an empty field.
write_cell(v) == IF v = NaN THEN <<>> ELSE v

\* pd.read_csv(USER_DATA_PATH)
read_csv(file) ==
    [i \in DOMAIN file |->
        [c \in DOMAIN file[i] |->
            IF c = "user_id" THEN file[i][c] ELSE read_cell(file[i][c])]]

\* df.to_csv(USER_DATA_PATH, index=False)
to_csv(df) ==
    [i \in DOMAIN df |->
        [c \in DOMAIN df[i] |->
            IF c = "user_id" THEN df[i][c] ELSE write_cell(df[i][c])]]

\* df[df['user_id'] == user_id].empty
NoRow(df, user_id) == \A i \in DOMAIN df : df[i].user_id # user_id

\* df.loc[df['user_id'] == user_id, col].iloc[0]
Cell(df, user_id, col) ==
    LET i == CHOOSE k \in DOMAIN df :
                 /\ df[k].user_id = user_id
                 /\ \A j \in 1..(k - 1) : df[j].user_id # user_id
    IN  df[i][col]

\* The mutation of the assignment that leaves out the row mask.
SetCellOfAllRows(df, user_id, col, v) ==
    [i \in DOMAIN df |-> [df[i] EXCEPT ![col] = v]]

\* df.loc[df['user_id'] == user_id, col] = v: every row of the user.
SetCell(df, user_id, col, v) ==
    [i \in DOMAIN df |->
        IF df[i].user_id = user_id THEN [df[i] EXCEPT ![col] = v] ELSE df[i]]

\* A row of the file with every text column empty.
BlankRow(user_id) ==
    [c \in TextColumns \cup {"user_id"} |->
        IF c = "user_id" THEN user_id ELSE <<>>]

(***************************************************************************)
(* Replies and results of a handler.  A handler that raises sends no reply *)
(* (the exception ends its task); what it wrote before stays written.      *)
(***************************************************************************)
Usage == [kind |-> "Usage"]

NotFound == [kind |-> "NotFound"]

Raised(e) == [kind |-> "Raise", error |-> e]

Result(file, reply) == [csv |-> file, reply |-> reply]

\* The value of a + b when a is nan: float + str raises TypeError.
TypeError == << "TypeError" >>

\* a + b for a cell a and a text b.
PyAdd(a, b) == IF a = NaN THEN TypeError ELSE a \o b

\* .split(';') if pd.notna(cell) else []
LogTokens(cell) == IF notna(cell) THEN Split(cell, ";") ELSE <<>>

\* log.split(':')[0]
DateField(log) == Split(log, ":")[1]

\* int(log.split(':')[1]) does not raise.
HasInt(log) == Len(Split(log, ":")) >= 2 /\ IsIntLiteral(Split(log, ":")[2])

\* float(log.split(':')[1]) does not raise.
HasFloat(log) == Len(Split(log, ":")) >= 2 /\ IsFloatLiteral(Split(log, ":")[2])

ValueInt(log) == ParseInt(Split(log, ":")[2])

ValueFloat(log) == ParseFloat(Split(log, ":")[2])

\* The number a loop takes from a token: int(...), float(...), or 1 for a
\* workout.
ValueOf(kind, log) ==
    CASE kind = "int" -> ValueInt(log)
      [] kind = "float" -> ValueFloat(log)
      [] kind = "one" -> 1

\* sum(nums)
Sum(nums) ==
    LET f[i \in 0..Len(nums)] ==
            IF i = 0 THEN 0 ELSE f[i - 1] + nums[i]
    IN  f[Len(nums)]

\* sum(int(log.split(':')[1]) for log in logs), or float
SumOf(logs, kind) == Sum([i \in DOMAIN logs |-> ValueOf(kind, logs[i])])

(***************************************************************************)
(* The log commands.                                                       *)
(***************************************************************************)
\* The mutation of log_append that keeps only the new entry.
log_append_overwrite(log, log_entry) == log_entry

\* log + f";{log_entry}" if log else log_entry
log_append(log, log_entry) ==
    IF Truthy(log) THEN PyAdd(log, << ";" >> \o log_entry) ELSE log_entry

\* sum(int(entry.split(':')[1]) for entry in log.split(';')
\*     if entry.startswith(today))
TodayEntries(log, today) ==
    LET OfToday(entry) == StartsWith(entry, today)
    IN  SelectSeq(Split(log, ";"), OfToday)

TodayTotal(log, today) == SumOf(TodayEntries(log, today), "int")

\* The part the five log handlers share: read the table, reject a user
\* without a row, append the entry to the user's log, write the table.
\* The handler goes on from "Written" with the log as written.
append_entry(user_id, file, col, log_entry) ==
    LET df == read_csv(file)
    IN  IF NoRow(df, user_id) THEN Result(file, NotFound)
        ELSE LET new == log_append(Cell(df, user_id, col), log_entry)
             IN  IF new = TypeError THEN Result(file, Raised("TypeError"))
                 ELSE Result(to_csv(SetCell(df, user_id, col, new)),
                             [kind |-> "Written", log |-> new])

\* append_entry has written the log: the handler computes its reply.
Written(r) == r.reply.kind = "Written"

log_water(user_id, args, file, now) ==
    IF args = <<>> \/ ~IsDigit(args[1]) THEN Result(file, Usage)
    ELSE LET water_ml == ParseInt(args[1])
             today == strftime(now.day)
             log_entry == today \o << ":" >> \o IntToStr(water_ml)
             Reply(new) ==
                 IF \E i \in DOMAIN TodayEntries(new, today) :
                        ~HasInt(TodayEntries(new, today)[i])
                 THEN Raised("ValueError")
                 ELSE [kind |-> "Logged", col |-> "water_log",
                       entry |-> log_entry,
                       total |-> TodayTotal(new, today)]
             r == append_entry(user_id, file, "water_log", log_entry)
         IN  IF Written(r) THEN Result(r.csv, Reply(r.reply.log)) ELSE r

log_sleep(user_id, args, file, now) ==
    IF args = <<>> \/ ~IsDigit(RemoveDots(args[1])) THEN Result(file, Usage)
    ELSE IF ~IsFloatLiteral(args[1]) THEN Result(file, Raised("ValueError"))
    ELSE LET sleep_hours == ParseFloat(args[1])
             today == strftime(now.day)
             log_entry == today \o << ":" >> \o FloatToStr(sleep_hours)
             Reply(new) == [kind |-> "Logged", col |-> "sleep_log",
                            entry |-> log_entry, total |-> sleep_hours]
             r == append_entry(user_id, file, "sleep_log", log_entry)
         IN  IF Written(r) THEN Result(r.csv, Reply(r.reply.log)) ELSE r

log_calories(user_id, args, file, now) ==
    IF Len(args) < 2 \/ ~IsDigit(args[1]) THEN Result(file, Usage)
    ELSE LET calories == ParseInt(args[1])
             meal == Join(Tail(args), << " " >>)
             today == strftime(now.day)
             log_entry == today \o << ":" >> \o IntToStr(calories)
                                \o << ":" >> \o meal
             Reply(new) ==
                 IF \E i \in DOMAIN TodayEntries(new, today) :
                        ~HasInt(TodayEntries(new, today)[i])
                 THEN Raised("ValueError")
                 ELSE [kind |-> "Logged", col |-> "calorie_log",
                       entry |-> log_entry,
                       total |-> TodayTotal(new, today)]
             r == append_entry(user_id, file, "calorie_log", log_entry)
         IN  IF Written(r) THEN Result(r.csv, Reply(r.reply.log)) ELSE r

log_workout(user_id, args, file, now) ==
    LET workout == Join(args, << " " >>)
    IN  IF ~Truthy(workout) THEN Result(file, Usage)
        ELSE LET today == strftime(now.day)
                 log_entry == today \o << ":" >> \o workout
                 Reply(new) == [kind |-> "Logged", col |-> "workout_log",
                                entry |-> log_entry, total |-> 0]
                 r == append_entry(user_id, file, "workout_log", log_entry)
             IN  IF Written(r) THEN Result(r.csv, Reply(r.reply.log)) ELSE r

\* The mutation of log_stress that leaves out the test of the range 1..5.
log_stress_unchecked(user_id, args, file, now) ==
    IF args = <<>> \/ ~IsDigit(args[1]) THEN Result(file, Usage)
    ELSE LET stress_level == ParseInt(args[1])
             today == strftime(now.day)
             log_entry == today \o << ":" >> \o IntToStr(stress_level)
             Reply(new) == [kind |-> "Logged", col |-> "stress_log",
                            entry |-> log_entry, total |-> stress_level]
             r == append_entry(user_id, file, "stress_log", log_entry)
         IN  IF Written(r) THEN Result(r.csv, Reply(r.reply.log)) ELSE r

log_stress(user_id, args, file, now) ==
    IF args = <<>> \/ ~IsDigit(args[1]) \/ ParseInt(args[1]) \notin 1..5
    THEN Result(file, Usage)
    ELSE LET stress_level == ParseInt(args[1])
             today == strftime(now.day)
             log_entry == today \o << ":" >> \o IntToStr(stress_level)
             Reply(new) == [kind |-> "Logged", col |-> "stress_log",
                            entry |-> log_entry, total |-> stress_level]
             r == append_entry(user_id, file, "stress_log", log_entry)
         IN  IF Written(r) THEN Result(r.csv, Reply(r.reply.log)) ELSE r

(***************************************************************************)
(* More Python text: substrings.  A text may hold a word as one element    *)
(* (a canned reply, a key word); such a word is never taken apart.         *)
(***************************************************************************)
\* The first position of sub in s, 0 when there is none.
Find(s, sub) ==
    LET at == {i \in 1..(Len(s) - Len(sub) + 1) :
                   SubSeq(s, i, i + Len(sub) - 1) = sub}
    IN  IF at = {} THEN 0 ELSE CHOOSE i \in at : \A j \in at : i <= j

\* sub in s
Contains(s, sub) == Find(s, sub) # 0

\* s.split(sep)[0] and s.split(sep)[-1] for a separator of several elements
FirstPart(s, sep) ==
    IF Find(s, sep) = 0 THEN s ELSE SubSeq(s, 1, Find(s, sep) - 1)

RECURSIVE LastPart(_, _)
LastPart(s, sep) ==
    IF Find(s, sep) = 0 THEN s
    ELSE LastPart(SubSeq(s, Find(s, sep) + Len(sep), Len(s)), sep)

\* s.strip()
RECURSIVE Strip(_)
Strip(s) ==
    IF s = <<>> THEN s
    ELSE IF Head(s) = " " THEN Strip(Tail(s))
    ELSE IF s[Len(s)] = " " THEN Strip(SubSeq(s, 1, Len(s) - 1))
    ELSE s

\* s.lower(): the upper case words of the model.
LowerOf(c) ==
    CASE c = "Fitness" -> "fitness"
      [] c = "WEIGHT_LOSS" -> "weight_loss"
      [] c = "Lose_Weight" -> "lose_weight"
      [] c = "K" -> "k"
      [] c = "G" -> "g"
      [] OTHER -> c

Lower(s) == [i \in DOMAIN s |-> LowerOf(s[i])]

\* float(s) with a sign
IsSignedFloat(s) ==
    \/ IsFloatLiteral(s)
    \/ Len(s) > 1 /\ s[1] \in {"+", "-"} /\ IsFloatLiteral(Tail(s))

ParseSignedFloat(s) ==
    IF IsFloatLiteral(s) THEN ParseFloat(s)
    ELSE IF s[1] = "-" THEN 0 - ParseFloat(Tail(s))
    ELSE ParseFloat(Tail(s))

(***************************************************************************)
(* BMI: weight / (height / 100) ** 2 on the floats of the row.  The value  *)
(* is kept as a fraction; nan when a cell is nan (or 0/0).                 *)
(***************************************************************************)
BmiOf(weight, height) ==
    IF weight = NaN \/ height = NaN THEN [nan |-> TRUE, num |-> 0, den |-> 1]
    ELSE LET w == ParseFloat(weight)
             h == ParseFloat(height)
         IN  [nan |-> (w = 0 /\ h = 0), num |-> w * 100000, den |-> h * h]

\* bmi < x for x given in tenths; false for nan, and for inf (den = 0).
BmiBelow(b, tenths) == ~b.nan /\ b.den > 0 /\ b.num * 10 < tenths * b.den

\* f"{bmi:.1f}": the value rounded to one decimal (a tie goes to the even
\* digit), "nan" or "inf".
BmiText(b) ==
    IF b.nan THEN << "nan" >>
    ELSE IF b.den = 0 THEN << "inf" >>
    ELSE LET q == (b.num * 10) \div b.den
             r == (b.num * 10) % b.den
         IN  FloatToStr(IF 2 * r > b.den \/ (2 * r = b.den /\ q % 2 = 1)
                        THEN q + 1 ELSE q)

\* The mutation of the category that takes a BMI at a limit for the lower
\* category.
BmiCategoryInclusive(b) ==
    IF BmiBelow(b, 186) THEN "Underweight"
    ELSE IF BmiBelow(b, 251) THEN "Normal"
    ELSE IF BmiBelow(b, 301) THEN "Overweight"
    ELSE "Obese"

BmiCategory(b) ==
    IF BmiBelow(b, 185) THEN "Underweight"
    ELSE IF BmiBelow(b, 250) THEN "Normal"
    ELSE IF BmiBelow(b, 300) THEN "Overweight"
    ELSE "Obese"

(***************************************************************************)
(* generate_response: the canned reply, the reminders due now, and the     *)
(* turn appended to the user's conversation (a row is made for a user      *)
(* without one).                                                           *)
(***************************************************************************)
\* response: the first key word found in message.lower() decides.  Each
\* reply text is kept as one element, cut to its first sentence.
CannedResponse(message) ==
    LET m == Lower(message)
    IN  IF Contains(m, << "headache" >>) THEN << "Headaches may be due to dehydration." >>
        ELSE IF Contains(m, << "chest pain" >>) THEN << "Chest pain is serious." >>
        ELSE IF Contains(m, << "stress" >>) THEN << "Try deep breathing." >>
        ELSE IF Contains(m, << "diet" >>) THEN << "A balanced diet is ideal." >>
        ELSE IF Contains(m, << "exercise" >>) THEN << "Aim for 30 minutes of exercise." >>
        ELSE IF Contains(m, << "water" >>) THEN << "Aim for 2L of water daily." >>
        ELSE IF Contains(m, << "sleep" >>) THEN << "Aim for 7-9 hours of sleep." >>
        ELSE << "Consult a doctor if symptoms persist." >>

\* datetime.strptime(time_str, '%H:%M') does not raise.
IsClockTime(time_str) ==
    LET parts == Split(time_str, ":")
    IN  /\ Len(parts) = 2
        /\ IsDigit(parts[1]) /\ Len(parts[1]) <= 2 /\ DigitsValue(parts[1]) <= 23
        /\ IsDigit(parts[2]) /\ Len(parts[2]) <= 2 /\ DigitsValue(parts[2]) <= 59

\* The mutation of ReminderDue that compares the hour alone.
ReminderDueInHour(reminder, now) ==
    /\ Truthy(reminder)
    /\ \/ Contains(reminder, << "a", "t" >>)
       \/ Contains(reminder, << " at " >>)
    /\ LET time_str == LastPart(reminder, << " at " >>)
       IN  /\ IsClockTime(time_str)
           /\ DigitsValue(Split(time_str, ":")[1]) = now.hour

\* The reminder is surfaced at now.
ReminderDue(reminder, now) ==
    /\ Truthy(reminder)
    /\ \/ Contains(reminder, << "a", "t" >>)
       \/ Contains(reminder, << " at " >>)
    /\ LET time_str == LastPart(reminder, << " at " >>)
       IN  /\ IsClockTime(time_str)
           /\ DigitsValue(Split(time_str, ":")[1]) = now.hour
           /\ DigitsValue(Split(time_str, ":")[2]) = now.minute

\* The lines "\nReminder: ..." added to the response, in stored order.
DueReminders(reminders, now) ==
    LET rs == Split(reminders, ";")
        f[i \in 0..Len(rs)] ==
            IF i = 0 THEN <<>>
            ELSE IF ReminderDue(rs[i], now)
                 THEN f[i - 1] \o << "\nReminder: " >> \o rs[i]
                 ELSE f[i - 1]
    IN  f[Len(rs)]

\* The mutation of generate_response that adds a row for every message.
generate_response_appending(user_id, message, file, now) ==
    LET response == CannedResponse(message)
    IN  Result(to_csv(Append(read_csv(file),
                   [BlankRow(user_id) EXCEPT !.conversation =
                       << "User: " >> \o message \o << "\nBot: " >> \o response])),
               [kind |-> "Response", response |-> response])

generate_response(user_id, message, file, now) ==
    LET df == read_csv(file)
        has_row == ~NoRow(df, user_id)
        context == IF has_row /\ notna(Cell(df, user_id, "conversation"))
                   THEN Cell(df, user_id, "conversation") ELSE <<>>
        response == CannedResponse(message)
                      \o (IF has_row /\ notna(Cell(df, user_id, "reminders"))
                          THEN DueReminders(Cell(df, user_id, "reminders"), now)
                          ELSE <<>>)
        df2 == IF has_row
               THEN SetCell(df, user_id, "conversation",
                            context \o << "\nUser: " >> \o message
                                    \o << "\nBot: " >> \o response)
               ELSE Append(df, [BlankRow(user_id) EXCEPT !.conversation =
                                   << "User: " >> \o message
                                       \o << "\nBot: " >> \o response])
    IN  Result(to_csv(df2), [kind |-> "Response", response |-> response])

(***************************************************************************)
(* The other commands.                                                     *)
(***************************************************************************)
start(user_id, args, file, now) == Result(file, [kind |-> "Welcome"])

\* random.choice(tips), random.choice(quotes): the position of the text
\* chosen in the list of four.
Picks == 1..4

\* The tip, and the quote, are chosen when the handler runs (Outcomes).
health_tip(user_id, args, file, now) == Result(file, [kind |-> "Tip", pick |-> 0])

motivate(user_id, args, file, now) == Result(file, [kind |-> "Quote", pick |-> 0])

\* The mutation of profile that replaces the whole record of the user.
profile_replacing(user_id, args, file, now) ==
    IF Len(args) < 4 THEN Result(file, Usage)
    ELSE IF ~IsSignedFloat(args[2]) \/ ~IsSignedFloat(args[3])
    THEN Result(file, Raised("ValueError"))
    ELSE LET name == args[1]
             weight == FloatToStr(ParseSignedFloat(args[2]))
             height == FloatToStr(ParseSignedFloat(args[3]))
             goal == args[4]
             df == read_csv(file)
             new_row == [BlankRow(user_id) EXCEPT
                            !.name = name, !.weight = weight,
                            !.height = height, !.goal = goal]
             df2 == IF NoRow(df, user_id) THEN Append(df, new_row)
                    ELSE [i \in DOMAIN df |->
                             IF df[i].user_id = user_id THEN new_row ELSE df[i]]
         IN  Result(to_csv(df2),
                    [kind |-> "ProfileSet", name |-> name, weight |-> weight,
                     height |-> height, goal |-> goal])

profile(user_id, args, file, now) ==
    IF Len(args) < 4 THEN Result(file, Usage)
    ELSE IF ~IsSignedFloat(args[2]) \/ ~IsSignedFloat(args[3])
    THEN Result(file, Raised("ValueError"))
    ELSE LET name == args[1]
             weight == FloatToStr(ParseSignedFloat(args[2]))
             height == FloatToStr(ParseSignedFloat(args[3]))
             goal == args[4]
             df == read_csv(file)
             df2 == IF NoRow(df, user_id)
                    THEN Append(df, [BlankRow(user_id) EXCEPT
                                        !.name = name, !.weight = weight,
                                        !.height = height, !.goal = goal])
                    ELSE SetCell(SetCell(SetCell(SetCell(df,
                             user_id, "name", name), user_id, "weight", weight),
                             user_id, "height", height), user_id, "goal", goal)
         IN  Result(to_csv(df2),
                    [kind |-> "ProfileSet", name |-> name, weight |-> weight,
                     height |-> height, goal |-> goal])

\* The part /remind, /feedback and /report_issue share: append a text to a
\* ';' separated cell of the user's row.
append_text(user_id, file, col, text, reply) ==
    LET df == read_csv(file)
    IN  IF NoRow(df, user_id) THEN Result(file, NotFound)
        ELSE LET new == log_append(Cell(df, user_id, col), text)
             IN  IF new = TypeError THEN Result(file, Raised("TypeError"))
                 ELSE Result(to_csv(SetCell(df, user_id, col, new)), reply)

remind(user_id, args, file, now) ==
    IF Len(args) < 2 THEN Result(file, Usage)
    ELSE LET reminder == Join(SubSeq(args, 1, Len(args) - 2), << " " >>)
                             \o << " at " >> \o args[Len(args)]
         IN  append_text(user_id, file, "reminders", reminder,
                         [kind |-> "ReminderSet", reminder |-> reminder])

\* The mutation of progress that clears the progress it has reported.
progress_clearing(user_id, args, file, now) ==
    LET df == read_csv(file)
    IN  IF NoRow(df, user_id) THEN Result(file, NotFound)
        ELSE LET p == Cell(df, user_id, "progress")
             IN  Result(to_csv(SetCell(df, user_id, "progress", <<>>)),
                        [kind |-> "Progress",
                         progress |-> IF Truthy(p) THEN p
                                      ELSE << "No progress recorded." >>])

progress(user_id, args, file, now) ==
    LET df == read_csv(file)
    IN  IF NoRow(df, user_id) THEN Result(file, NotFound)
        ELSE LET p == Cell(df, user_id, "progress")
             IN  Result(file, [kind |-> "Progress",
                               progress |-> IF Truthy(p) THEN p
                                            ELSE << "No progress recorded." >>])

update_progress(user_id, args, file, now) ==
    LET p == Join(args, << " " >>)
    IN  IF ~Truthy(p) THEN Result(file, Usage)
        ELSE LET df == read_csv(file)
             IN  IF NoRow(df, user_id) THEN Result(file, NotFound)
                 ELSE Result(to_csv(SetCell(df, user_id, "progress", p)),
                             [kind |-> "ProgressUpdated", progress |-> p])

bmi(user_id, args, file, now) ==
    LET df == read_csv(file)
    IN  IF NoRow(df, user_id) THEN Result(file, NotFound)
        ELSE LET b == BmiOf(Cell(df, user_id, "weight"),
                            Cell(df, user_id, "height"))
             IN  Result(file, [kind |-> "Bmi", bmi |-> b, text |-> BmiText(b),
                               category |-> BmiCategory(b)])

feedback(user_id, args, file, now) ==
    LET text == Join(args, << " " >>)
    IN  IF ~Truthy(text) THEN Result(file, Usage)
        ELSE append_text(user_id, file, "feedback", text,
                         [kind |-> "FeedbackThanks"])

report_issue(user_id, args, file, now) ==
    LET issue == Join(args, << " " >>)
    IN  IF ~Truthy(issue) THEN Result(file, Usage)
        ELSE append_text(user_id, file, "feedback", << "Issue: " >> \o issue,
                         [kind |-> "IssueReported"])

wearable_data(user_id, args, file, now) ==
    IF Len(args) < 2 THEN Result(file, Usage)
    ELSE IF ~IsIntLiteral(args[1]) \/ ~IsIntLiteral(args[2])
    THEN Result(file, Raised("ValueError"))
    ELSE generate_response(user_id,
             << "Wearable data: " >> \o IntToStr(ParseInt(args[1]))
                 \o << " steps, heart_rate " >> \o IntToStr(ParseInt(args[2]))
                 \o << " bpm" >>,
             file, now)

\* The column holds a text in some row: pandas reads it with dtype object;
\* a column that is empty in every row is read as float64.
ObjectColumn(df, col) == df = <<>> \/ \E i \in DOMAIN df : notna(df[i][col])

\* The words handle_message looks for in the conversation.
HealthQuiz == << "Health Quiz" >>

QuizPrompt == HealthQuiz \o << ": How many hours of sleep do you aim for nightly?" >>

\* df.loc[..., 'conversation'] += text: a nan cell of an object column stays
\* nan; on a float64 column the addition raises TypeError.
health_quiz(user_id, args, file, now) ==
    LET df == read_csv(file)
        reply == [kind |-> "Quiz"]
    IN  IF NoRow(df, user_id) THEN Result(to_csv(df), reply)
        ELSE IF ~ObjectColumn(df, "conversation")
        THEN Result(file, Raised("TypeError"))
        ELSE LET c == Cell(df, user_id, "conversation")
             IN  IF c = NaN THEN Result(to_csv(df), reply)
                 ELSE Result(to_csv(SetCell(df, user_id, "conversation",
                                 c \o << "\nBot: " >> \o QuizPrompt)), reply)

\* The mutation of export_data that removes the exported row from the table.
export_data_removing(user_id, args, file, now) ==
    LET df == read_csv(file)
        Others(row) == row.user_id # user_id
    IN  IF NoRow(df, user_id) THEN Result(file, NotFound)
        ELSE Result(to_csv(SelectSeq(df, Others)), [kind |-> "Document"])

\* The export is written to a file of its own, /persistent/user_data_<id>.csv,
\* which is removed after it was sent; USER_DATA_PATH is not written.
export_data(user_id, args, file, now) ==
    LET df == read_csv(file)
    IN  IF NoRow(df, user_id) THEN Result(file, NotFound)
        ELSE Result(file, [kind |-> "Document"])

(***************************************************************************)
(* Aggregation over the last 7 days: /health_summary, /weekly_trend,       *)
(* /goal_progress.                                                         *)
(***************************************************************************)
\* (datetime.now() - timedelta(days=7)).strftime('%Y-%m-%d')
start_date(now) == strftime(now.day - WindowDays)

\* The mutation of the window test that leaves out the start date itself.
InWindowExclusive(log, since) == Truthy(log) /\ StrLess(since, DateField(log))

\* log and log.split(':')[0] >= start_date
InWindow(log, since) == Truthy(log) /\ StrGe(DateField(log), since)

\* [log for log in logs if log and log.split(':')[0] >= start_date]
WindowLogs(logs, since) ==
    LET Keep(log) == InWindow(log, since) IN SelectSeq(logs, Keep)

\* len(set(log.split(':')[0] for log in ...))
DistinctDays(logs) == Cardinality({DateField(logs[i]) : i \in DOMAIN logs})

\* The mutation of Average that divides by the length of the window.
AverageOverWindow(total, days) ==
    IF days > 0 THEN [num |-> total, den |-> WindowDays]
    ELSE [num |-> 0, den |-> 1]

\* total / days if days > 0 else 0, kept as a fraction
Average(total, days) ==
    IF days > 0 THEN [num |-> total, den |-> days] ELSE [num |-> 0, den |-> 1]

health_summary(user_id, args, file, now) ==
    LET df == read_csv(file)
    IN  IF NoRow(df, user_id) THEN Result(file, NotFound)
        ELSE
        LET since == start_date(now)
            water_logs == WindowLogs(LogTokens(Cell(df, user_id, "water_log")), since)
            sleep_logs == WindowLogs(LogTokens(Cell(df, user_id, "sleep_log")), since)
            calorie_logs == WindowLogs(LogTokens(Cell(df, user_id, "calorie_log")), since)
            workout_logs == WindowLogs(LogTokens(Cell(df, user_id, "workout_log")), since)
            stress_logs == WindowLogs(LogTokens(Cell(df, user_id, "stress_log")), since)
        IN  IF \/ \E i \in DOMAIN water_logs : ~HasInt(water_logs[i])
               \/ \E i \in DOMAIN sleep_logs : ~HasFloat(sleep_logs[i])
               \/ \E i \in DOMAIN calorie_logs : ~HasInt(calorie_logs[i])
               \/ \E i \in DOMAIN stress_logs : ~HasInt(stress_logs[i])
            THEN Result(file, Raised("ValueError"))
            ELSE Result(file,
                   [kind |-> "Summary",
                    avg_water |-> Average(SumOf(water_logs, "int"),
                                          DistinctDays(water_logs)),
                    avg_sleep |-> Average(SumOf(sleep_logs, "float"),
                                          DistinctDays(sleep_logs)),
                    calorie_total |-> SumOf(calorie_logs, "int"),
                    workout_count |-> Len(workout_logs),
                    avg_stress |-> Average(SumOf(stress_logs, "int"),
                                           DistinctDays(stress_logs)),
                    bmi |-> BmiOf(Cell(df, user_id, "weight"),
                                  Cell(df, user_id, "height"))])

\* The mutation of DictAdd that puts a new date before the others.
DictAddFront(daily, date, v) ==
    IF \E i \in DOMAIN daily : daily[i][1] = date
    THEN [i \in DOMAIN daily |->
             IF daily[i][1] = date THEN << date, daily[i][2] + v >>
             ELSE daily[i]]
    ELSE << << date, v >> >> \o daily

\* The mutation of DictAdd in which a later entry replaces the day's total.
DictAddOverwrite(daily, date, v) ==
    IF \E i \in DOMAIN daily : daily[i][1] = date
    THEN [i \in DOMAIN daily |->
             IF daily[i][1] = date THEN << date, v >> ELSE daily[i]]
    ELSE Append(daily, << date, v >>)

\* The daily totals of /weekly_trend: a dict filled in the order of the log,
\* kept as the sequence of its (date, total) items in insertion order.
\* daily[date] = daily.get(date, 0) + Val(log)
DictAdd(daily, date, v) ==
    IF \E i \in DOMAIN daily : daily[i][1] = date
    THEN [i \in DOMAIN daily |->
             IF daily[i][1] = date THEN << date, daily[i][2] + v >>
             ELSE daily[i]]
    ELSE Append(daily, << date, v >>)

DailyTotals(logs, since, kind) ==
    LET f[i \in 0..Len(logs)] ==
            IF i = 0 THEN <<>>
            ELSE IF InWindow(logs[i], since)
                 THEN DictAdd(f[i - 1], DateField(logs[i]), ValueOf(kind, logs[i]))
                 ELSE f[i - 1]
    IN  f[Len(logs)]

\* The mutation of Trend that compares the last bucket with the one before.
TrendOfLastTwo(daily, better, stable, lower_is_better) ==
    IF daily = <<>> THEN "NoData"
    ELSE IF Len(daily) > 1
            /\ (IF lower_is_better
                THEN daily[Len(daily)][2] < daily[Len(daily) - 1][2]
                ELSE daily[Len(daily)][2] > daily[Len(daily) - 1][2])
    THEN better
    ELSE stable

\* The mutation of Trend that has no data on a single day.
TrendNeedsTwoDays(daily, better, stable, lower_is_better) ==
    IF Len(daily) < 2 THEN "NoData"
    ELSE IF (IF lower_is_better
             THEN daily[Len(daily)][2] < daily[1][2]
             ELSE daily[Len(daily)][2] > daily[1][2])
    THEN better
    ELSE stable

\* "No data" if not daily else better if len(daily) > 1 and
\* list(daily.values())[-1] > (or <) list(daily.values())[0] else stable
Trend(daily, better, stable, lower_is_better) ==
    IF daily = <<>> THEN "NoData"
    ELSE IF Len(daily) > 1
            /\ (IF lower_is_better
                THEN daily[Len(daily)][2] < daily[1][2]
                ELSE daily[Len(daily)][2] > daily[1][2])
    THEN better
    ELSE stable

\* The five dicts of /weekly_trend for a row of the data frame.
daily_water(df, user_id, now) ==
    DailyTotals(LogTokens(Cell(df, user_id, "water_log")), start_date(now), "int")

daily_sleep(df, user_id, now) ==
    DailyTotals(LogTokens(Cell(df, user_id, "sleep_log")), start_date(now), "float")

daily_calories(df, user_id, now) ==
    DailyTotals(LogTokens(Cell(df, user_id, "calorie_log")), start_date(now), "int")

daily_workouts(df, user_id, now) ==
    DailyTotals(LogTokens(Cell(df, user_id, "workout_log")), start_date(now), "one")

daily_stress(df, user_id, now) ==
    DailyTotals(LogTokens(Cell(df, user_id, "stress_log")), start_date(now), "int")

\* A loop of /weekly_trend raises on an in-window token without a number.
TrendRaises(df, user_id, now) ==
    LET since == start_date(now)
        Bad(col, Has(_)) ==
            LET logs == WindowLogs(LogTokens(Cell(df, user_id, col)), since)
            IN  \E i \in DOMAIN logs : ~Has(logs[i])
    IN  \/ Bad("water_log", HasInt)
        \/ Bad("sleep_log", HasFloat)
        \/ Bad("calorie_log", HasInt)
        \/ Bad("stress_log", HasInt)

weekly_trend(user_id, args, file, now) ==
    LET df == read_csv(file)
    IN  IF NoRow(df, user_id) THEN Result(file, NotFound)
        ELSE IF TrendRaises(df, user_id, now)
        THEN Result(file, Raised("ValueError"))
        ELSE Result(file,
               [kind |-> "Trend",
                water |-> Trend(daily_water(df, user_id, now),
                                "Improving", "Stable or declining", FALSE),
                sleep |-> Trend(daily_sleep(df, user_id, now),
                                "Improving", "Stable or declining", FALSE),
                calories |-> Trend(daily_calories(df, user_id, now),
                                   "Decreasing", "Stable or increasing", TRUE),
                workouts |-> Trend(daily_workouts(df, user_id, now),
                                   "More active", "Stable or less active", FALSE),
                stress |-> Trend(daily_stress(df, user_id, now),
                                 "Improving", "Stable or worsening", TRUE)])

goal_progress(user_id, args, file, now) ==
    LET df == read_csv(file)
    IN  IF NoRow(df, user_id) THEN Result(file, NotFound)
        ELSE
        LET goal == Cell(df, user_id, "goal")
            p == Cell(df, user_id, "progress")
            workout_logs == LogTokens(Cell(df, user_id, "workout_log"))
            workout_count == Len(WindowLogs(workout_logs, start_date(now)))
        IN  IF goal = NaN THEN Result(file, Raised("AttributeError"))
            ELSE IF Lower(goal) \in {<< "weight_loss" >>, << "lose_weight" >>}
            THEN IF p = NaN THEN Result(file, Raised("AttributeError"))
                 ELSE IF Truthy(p) /\ Contains(Lower(p), << "k", "g" >>)
                 THEN LET text == Strip(FirstPart(p, << "k", "g" >>))
                      IN  IF IsSignedFloat(text)
                          THEN Result(file, [kind |-> "Goal", policy |-> "weight",
                                   detail |-> "change",
                                   value |-> ParseSignedFloat(text)])
                          ELSE Result(file, [kind |-> "Goal", policy |-> "weight",
                                   detail |-> "no valid", value |-> 0])
                 ELSE Result(file, [kind |-> "Goal", policy |-> "weight",
                                    detail |-> "none", value |-> 0])
            ELSE IF Lower(goal) \in {<< "fitness" >>, << "get_fit" >>}
            THEN Result(file, [kind |-> "Goal", policy |-> "fitness",
                               detail |-> "workouts", value |-> workout_count])
            ELSE Result(file, [kind |-> "Goal", policy |-> "custom",
                               detail |-> "custom", value |-> 0])

(***************************************************************************)
(* A text message.                                                         *)
(***************************************************************************)
handle_message(user_id, message, file, now) ==
    LET df == read_csv(file)
    IN  IF ~NoRow(df, user_id) /\ Cell(df, user_id, "conversation") = NaN
        THEN Result(file, Raised("TypeError"))
        ELSE IF /\ ~NoRow(df, user_id)
                /\ Contains(Cell(df, user_id, "conversation"), HealthQuiz)
                /\ IsDigit(message)
        THEN LET hours == ParseInt(message)
                 response == IF 7 <= hours /\ hours <= 9
                             THEN << "You aim for " >> \o message \o << " hours of sleep. Great!" >>
                             ELSE << "You aim for " >> \o message \o << " hours of sleep. Aim for 7-9 hours." >>
             IN  Result(to_csv(SetCell(df, user_id, "conversation",
                            Cell(df, user_id, "conversation")
                                \o << "\nUser: " >> \o message
                                \o << "\nBot: " >> \o response)),
                        [kind |-> "QuizAnswer", response |-> response])
        ELSE generate_response(user_id, message, file, now)

(***************************************************************************)
(* The state machine.                                                      *)
(*   csv      the table in USER_DATA_PATH, a sequence of rows              *)
(*   clock    the day datetime.now() reports                               *)
(*   tasks    the handler tasks: idle, suspended at the await that sends   *)
(*            their reply, or ended by an exception                        *)
(*   logged   history: for each user and log column, the entries the log   *)
(*            commands have stored (day, value, free text), in order       *)
(*   profiled history: the users for whom /profile has succeeded           *)
(*   main     the position of main in its polling loop: "try" (about to    *)
(*            call run_polling), "polling", "except" (asleep for 5 s       *)
(*            after an Exception) or "finally"                             *)
(*   running  app.running                                                  *)
(* A handler has no await between reading the table and writing it back,   *)
(* so the event loop runs that part of it as one step.                     *)
(***************************************************************************)
VARIABLES csv, clock, tasks, logged, profiled, main, running

vars == << csv, clock, tasks, logged, profiled, main, running >>

Users == {1, 2}

TaskIds == 1..MaxTasks

IdleTask == [pc |-> "idle", user_id |-> 0, cmd |-> "", args |-> <<>>,
             reply |-> [kind |-> ""], day |-> 0, time |-> << 0, 0 >>]

\* The times of day at which datetime.now() is read.
Times == { << 9, 0 >>, << 9, 1 >> }

\* The handler registered for a command (main), or for a text message.
RunHandler(user_id, cmd, args, file, now) ==
    CASE cmd = "start" -> start(user_id, args, file, now)
      [] cmd = "profile" -> profile(user_id, args, file, now)
      [] cmd = "remind" -> remind(user_id, args, file, now)
      [] cmd = "progress" -> progress(user_id, args, file, now)
      [] cmd = "update_progress" -> update_progress(user_id, args, file, now)
      [] cmd = "bmi" -> bmi(user_id, args, file, now)
      [] cmd = "health_tip" -> health_tip(user_id, args, file, now)
      [] cmd = "feedback" -> feedback(user_id, args, file, now)
      [] cmd = "wearable_data" -> wearable_data(user_id, args, file, now)
      [] cmd = "log_water" -> log_water(user_id, args, file, now)
      [] cmd = "log_sleep" -> log_sleep(user_id, args, file, now)
      [] cmd = "log_calories" -> log_calories(user_id, args, file, now)
      [] cmd = "log_workout" -> log_workout(user_id, args, file, now)
      [] cmd = "log_stress" -> log_stress(user_id, args, file, now)
      [] cmd = "motivate" -> motivate(user_id, args, file, now)
      [] cmd = "health_quiz" -> health_quiz(user_id, args, file, now)
      [] cmd = "export_data" -> export_data(user_id, args, file, now)
      [] cmd = "report_issue" -> report_issue(user_id, args, file, now)
      [] cmd = "health_summary" -> health_summary(user_id, args, file, now)
      [] cmd = "weekly_trend" -> weekly_trend(user_id, args, file, now)
      [] cmd = "goal_progress" -> goal_progress(user_id, args, file, now)
      [] cmd = "text" -> handle_message(user_id, args, file, now)

LogCommand ==
    [log_water |-> "water_log", log_sleep |-> "sleep_log",
     log_calories |-> "calorie_log", log_workout |-> "workout_log",
     log_stress |-> "stress_log"]

\* The entry a log command was asked to store: the day, the value (tenths
\* of hours for sleep, 1 for a workout) and the free text.
Logged(cmd, args, day) ==
    CASE cmd = "log_water" -> [day |-> day, val |-> ParseInt(args[1]), extra |-> <<>>]
      [] cmd = "log_sleep" -> [day |-> day, val |-> ParseFloat(args[1]), extra |-> <<>>]
      [] cmd = "log_calories" ->
             [day |-> day, val |-> ParseInt(args[1]),
              extra |-> Join(Tail(args), << " " >>)]
      [] cmd = "log_workout" -> [day |-> day, val |-> 1, extra |-> Join(args, << " " >>)]
      [] cmd = "log_stress" -> [day |-> day, val |-> ParseInt(args[1]), extra |-> <<>>]

NoEntries == [c \in LogColumns |-> <<>>]

\* The number of entries the log commands have stored for a user since the
\* bot started.
EntryCount(u) ==
    LET cols == << "water_log", "sleep_log", "calorie_log", "workout_log", "stress_log" >>
    IN  Sum([k \in DOMAIN cols |->
                Cardinality({i \in DOMAIN logged[u][cols[k]] :
                                logged[u][cols[k]][i].day >= FirstDay})])

\* The number of bot turns in the conversation stored for a user.
Turns(u) ==
    LET df == read_csv(csv)
        c == IF NoRow(df, u) THEN NaN ELSE Cell(df, u, "conversation")
    IN  Cardinality({i \in DOMAIN c : c[i] = "\nBot: "})

\* The commands that add to the conversation.
TalkCommands == {"text", "wearable_data", "health_quiz"}

\* The replies a handler can give on a table at a time: one, or one for each
\* text random.choice can return.
Outcomes(user_id, cmd, args, file, now) ==
    LET reply == RunHandler(user_id, cmd, args, file, now).reply
    IN  IF reply.kind \in {"Tip", "Quote"}
        THEN {[reply EXCEPT !.pick = k] : k \in Picks}
        ELSE {reply}

\* A handler runs up to the await that sends its reply (or raises).
Run(h, u, cmd, args, t) ==
    /\ tasks[h].pc = "idle"
    /\ LET now == [day |-> clock, hour |-> t[1], minute |-> t[2]]
           r == RunHandler(u, cmd, args, csv, now)
       IN  /\ csv' = r.csv
           /\ \E reply \in Outcomes(u, cmd, args, csv, now) :
                  tasks' = [tasks EXCEPT ![h] =
                      [pc |-> IF reply.kind = "Raise" THEN "raised" ELSE "reply",
                       user_id |-> u, cmd |-> cmd, args |-> args,
                       reply |-> reply, day |-> clock, time |-> t]]
           /\ logged' =
                  IF cmd \in DOMAIN LogCommand /\ r.csv # csv
                  THEN [logged EXCEPT ![u][LogCommand[cmd]] =
                           Append(@, Logged(cmd, args, clock))]
                  ELSE logged
           /\ profiled' = IF r.reply.kind = "ProfileSet"
                          THEN profiled \cup {u} ELSE profiled
    /\ UNCHANGED << clock, main, running >>

\* The handler runs while the logs and the conversation are within the
\* bounds of the model.
Handle(h, u, cmd, args, t) ==
    /\ cmd \in DOMAIN LogCommand => EntryCount(u) < MaxLog
    /\ cmd \in TalkCommands => Turns(u) < MaxTurns
    /\ Run(h, u, cmd, args, t)

\* The reply is sent and the handler returns; a task ended by an exception
\* is dropped.
Finish(h) ==
    /\ tasks[h].pc \in {"reply", "raised"}
    /\ tasks' = [tasks EXCEPT ![h] = IdleTask]
    /\ UNCHANGED << csv, clock, logged, profiled, main, running >>

\* Midnight passes.
Tick ==
    /\ clock < MaxDay
    /\ clock' = clock + 1
    /\ UNCHANGED << csv, tasks, logged, profiled, main, running >>

(***************************************************************************)
(* Spec: /profile, the log commands and /weekly_trend on a table that is    *)
(* either new (the file did not exist) or was left on the persistent disk  *)
(* with a complete row for user 1.                                         *)
(***************************************************************************)
\* The entry texts of the row found on the disk, one per log, dated the day
\* before the first day of the model.
SeedEntries ==
    [water_log |-> [day |-> FirstDay - 1, val |-> 500, extra |-> <<>>],
     sleep_log |-> [day |-> FirstDay - 1, val |-> 75, extra |-> <<>>],
     calorie_log |-> [day |-> FirstDay - 1, val |-> 300, extra |-> << "r" >>],
     workout_log |-> [day |-> FirstDay - 1, val |-> 1, extra |-> << "r" >>],
     stress_log |-> [day |-> FirstDay - 1, val |-> 3, extra |-> <<>>]]

\* The text a log command stores for an entry: date:value or date:value:extra.
EntryText(col, e) ==
    strftime(e.day) \o << ":" >> \o
    (CASE col = "water_log" -> IntToStr(e.val)
       [] col = "sleep_log" -> FloatToStr(e.val)
       [] col = "calorie_log" -> IntToStr(e.val) \o << ":" >> \o e.extra
       [] col = "workout_log" -> e.extra
       [] col = "stress_log" -> IntToStr(e.val))

\* The text of a log holding the entries es.
LogText(col, es) ==
    Join([i \in DOMAIN es |-> EntryText(col, es[i])], << ";" >>)

\* A complete row of the file whose logs hold the given entries.
RowOf(user_id, goal, entries) ==
    [c \in TextColumns \cup {"user_id"} |->
        CASE c = "user_id" -> user_id
          [] c = "name" -> << "Al" >>
          [] c = "weight" -> << "7", "0", ".", "0" >>
          [] c = "height" -> << "1", "7", "5", ".", "0" >>
          [] c = "goal" -> goal
          [] c \in LogColumns -> LogText(c, entries[c])
          [] OTHER -> <<>>]

SeededLogs == [c \in LogColumns |-> << SeedEntries[c] >>]

Init ==
    /\ clock = FirstDay
    /\ main = "polling"
    /\ running = TRUE
    /\ tasks = [h \in TaskIds |-> IdleTask]
    /\ \/ /\ csv = <<>>
          /\ logged = [u \in Users |-> NoEntries]
          /\ profiled = {}
       \/ /\ csv = << RowOf(1, << "fitness" >>, SeededLogs) >>
          /\ logged = [u \in Users |-> IF u = 1 THEN SeededLogs ELSE NoEntries]
          /\ profiled = {1}

\* The updates of Spec: command and arguments.
ProfileArgs == << << "Al" >>, << "7", "0" >>, << "1", "7", "5" >>, << "fitness" >> >>

LogUpdates ==
    { << "profile", ProfileArgs >>,
      << "log_water", << << "7", "0", "0" >> >> >>,
      << "log_water", << << "a" >> >> >>,
      << "log_sleep", << << "8" >> >> >>,
      << "log_calories", << << "4", "0", "0" >>, << "s" >> >> >>,
      << "log_workout", << << "g" >> >> >>,
      << "log_stress", << << "5" >> >> >>,
      << "weekly_trend", <<>> >> }

\* The log commands do not read the time of day.
Morning == << 9, 0 >>

\* An update reaches the bot: one of the given handler tasks runs it.
Receive(H, U, Updates, Ts) ==
    \E h \in H, u \in U, c \in Updates, t \in Ts : Handle(h, u, c[1], c[2], t)

\* User 1 sends the updates of Spec; user 2 only sets a profile, which
\* rewrites the file that holds the logs of user 1.
Next ==
    \/ Receive(TaskIds, {1}, LogUpdates, {Morning})
    \/ Receive(TaskIds, {2}, {<< "profile", ProfileArgs >>}, {Morning})
    \/ \E h \in TaskIds : Finish(h)
    \/ Tick

Spec == Init /\ [][Next]_vars

(***************************************************************************)
(* SpecAgg: the aggregation commands as functions of the record.  The      *)
(* record of user 1 is drawn: one log takes every sequence of at most      *)
(* MaxEntries entries, dated in the order a log is written, around the     *)
(* start of the window; the other logs are empty or hold a fixed pattern.  *)
(***************************************************************************)
\* The days an entry is dated: the day before the window, its first day,
\* the day after, and today.
AggDays == {AggDay - WindowDays - 1, AggDay - WindowDays,
            AggDay - WindowDays + 1, AggDay}

\* The values and free texts of the entries drawn for a log.
AggValues ==
    [water_log |-> {500, 700, 1000}, sleep_log |-> {60, 80},
     calorie_log |-> {300, 400}, workout_log |-> {1}, stress_log |-> {3, 5}]

AggExtras ==
    [water_log |-> {<<>>}, sleep_log |-> {<<>>},
     calorie_log |-> {<< "r" >>}, workout_log |-> {<< "r" >>, << "g" >>},
     stress_log |-> {<<>>}]

\* The histories a log command sequence can leave in a log: dates never
\* decrease along the log.
AggLogs(col) ==
    LET E == [day : AggDays, val : AggValues[col], extra : AggExtras[col]]
        All == UNION {[1..n -> E] : n \in 0..MaxEntries}
    IN  {es \in All : \A i \in 1..(Len(es) - 1) : es[i].day <= es[i + 1].day}

Entry(day, val, extra) == [day |-> day, val |-> val, extra |-> extra]

\* The fixed pattern of the other logs: no sleep, calories twice on one day,
\* workouts on two days, stress falling from 5 to 3 over two days.
MixedLogs ==
    [water_log |-> << Entry(AggDay, 500, <<>>) >>,
     sleep_log |-> <<>>,
     calorie_log |-> << Entry(AggDay, 300, << "r" >>), Entry(AggDay, 400, << "r" >>) >>,
     workout_log |-> << Entry(AggDay - 1, 1, << "r" >>), Entry(AggDay, 1, << "g" >>) >>,
     stress_log |-> << Entry(AggDay - 1, 5, <<>>), Entry(AggDay, 3, <<>>) >>]

InitAgg ==
    /\ clock = AggDay
    /\ main = "polling"
    /\ running = TRUE
    /\ tasks = [h \in TaskIds |-> IdleTask]
    /\ profiled = {1}
    /\ \E col \in LogColumns, rest \in {NoEntries, MixedLogs} :
           \E es \in AggLogs(col) :
               /\ logged = [u \in Users |->
                               IF u = 1 THEN [rest EXCEPT ![col] = es]
                               ELSE NoEntries]
               /\ csv = << RowOf(1, << "fitness" >>, [rest EXCEPT ![col] = es]) >>

AggUpdates ==
    { << "health_summary", <<>> >>,
      << "weekly_trend", <<>> >>,
      << "goal_progress", <<>> >> }

NextAgg ==
    \/ Receive({1}, {1}, AggUpdates, {Morning})
    \/ \E h \in TaskIds : Finish(h)

SpecAgg == InitAgg /\ [][NextAgg]_vars


(***************************************************************************)
(* SpecBot: every command and the text messages on a new table, handled    *)
(* one update at a time, as the application runs them.                     *)
(***************************************************************************)
BotUpdates ==
    LogUpdates \cup
    { << "start", <<>> >>,
      << "health_tip", <<>> >>,
      << "motivate", <<>> >>,
      << "remind", << << "water" >>, << "at" >>, << "0", "9", ":", "0", "0" >> >> >>,
      << "progress", <<>> >>,
      << "update_progress", << << "-", "2", "k", "g" >> >> >>,
      << "bmi", <<>> >>,
      << "feedback", << << "good" >> >> >>,
      << "report_issue", << << "bug" >> >> >>,
      << "wearable_data", << << "9" >>, << "6", "0" >> >> >>,
      << "health_quiz", <<>> >>,
      << "export_data", <<>> >>,
      << "health_summary", <<>> >>,
      << "goal_progress", <<>> >>,
      << "text", << "hi" >> >> }

\* The file did not exist: it is created with the header alone.
InitBot ==
    /\ clock = FirstDay
    /\ main = "polling"
    /\ running = TRUE
    /\ tasks = [h \in TaskIds |-> IdleTask]
    /\ csv = <<>>
    /\ logged = [u \in Users |-> NoEntries]
    /\ profiled = {}

NextBot ==
    \/ Receive({1}, Users, BotUpdates, Times)
    \/ \E h \in TaskIds : Finish(h)

SpecBot == InitBot /\ [][NextBot]_vars

(***************************************************************************)
(* Properties of the log commands (Spec).                                  *)
(***************************************************************************)
\* The entries of a user's log in the file, as the readers split it.
EntriesOf(file, u, col) ==
    LET df == read_csv(file)
    IN  IF NoRow(df, u) THEN <<>> ELSE LogTokens(Cell(df, u, col))

\* The arguments are ones the log command accepts.
ValidLogArgs(cmd, args) ==
    /\ args # <<>>
    /\ cmd = "log_sleep" => IsFloatLiteral(args[1])
    /\ cmd \in {"log_water", "log_calories", "log_stress"} => IsDigit(args[1])

\* Task h has, in this step, run a log command of user u on column col up to
\* its reply.
LoggedNow(h, u, col) ==
    /\ tasks[h].pc = "idle"
    /\ tasks'[h].pc = "reply"
    /\ tasks'[h].reply.kind = "Logged"
    /\ tasks'[h].user_id = u
    /\ tasks'[h].cmd \in DOMAIN LogCommand
    /\ LogCommand[tasks'[h].cmd] = col

\* C1. Append-only metric logs: a successful log command leaves in the
\* user's log every entry that was in it, unchanged and in the same order,
\* followed by the new entry as the last one; no other log changes in that
\* step, and no step of any other kind changes an entry of any log.
C1_AppendOnly ==
    [][\A u \in Users, col \in LogColumns :
          LET old == EntriesOf(csv, u, col)
              new == EntriesOf(csv', u, col)
          IN  IF \E h \in TaskIds : LoggedNow(h, u, col)
              THEN \E h \in TaskIds :
                      /\ LoggedNow(h, u, col)
                      /\ new = Append(old, EntryText(col,
                                  Logged(tasks'[h].cmd, tasks'[h].args, clock)))
              ELSE new = old]_vars

\* A log command has replied and its entry is the last of a log that held
\* an entry before.
C1_Witness ==
    \E h \in TaskIds :
        /\ tasks[h].pc = "reply"
        /\ tasks[h].reply.kind = "Logged"
        /\ LET es == EntriesOf(csv, tasks[h].user_id, tasks[h].reply.col)
           IN  /\ Len(es) >= 2
               /\ es[Len(es)] = tasks[h].reply.entry
               /\ es[1] = EntryText(tasks[h].reply.col,
                                    SeedEntries[tasks[h].reply.col])

\* The number of elements of seq equal to x.
Count(seq, x) == Cardinality({i \in DOMAIN seq : seq[i] = x})

\* The entry text a task's /log_water stores.
WaterEntry(h) ==
    EntryText("water_log", Logged("log_water", tasks[h].args, tasks[h].day))

\* The tasks that have run a valid /log_water of user u, whose row existed,
\* and have not returned yet.
WaterTasks(u) ==
    {h \in TaskIds :
        /\ tasks[h].pc # "idle"
        /\ tasks[h].user_id = u
        /\ tasks[h].cmd = "log_water"
        /\ ValidLogArgs("log_water", tasks[h].args)
        /\ tasks[h].reply # NotFound}

\* C2. No lost updates: when valid /log_water commands of the same existing
\* user are handled concurrently, the user's water log holds the entry of
\* each of them (as many copies of an entry text as handlers stored it).
C2_NoLostUpdates ==
    \A u \in Users : \A h \in WaterTasks(u) :
        Count(EntriesOf(csv, u, "water_log"), WaterEntry(h))
            >= Cardinality({k \in WaterTasks(u) : WaterEntry(k) = WaterEntry(h)})

\* C3. Empty log through the store: the first valid log command on a record
\* created by /profile, whose log is still empty, succeeds and leaves
\* exactly one entry in that log.
C3_FirstLogSucceeds ==
    [][\A h \in TaskIds :
          (/\ tasks[h].pc = "idle"
           /\ tasks'[h].pc # "idle"
           /\ tasks'[h].cmd \in DOMAIN LogCommand
           /\ ValidLogArgs(tasks'[h].cmd, tasks'[h].args)
           /\ tasks'[h].user_id \in profiled
           /\ logged[tasks'[h].user_id][LogCommand[tasks'[h].cmd]] = <<>>)
          => /\ tasks'[h].reply.kind = "Logged"
             /\ Len(EntriesOf(csv', tasks'[h].user_id,
                              LogCommand[tasks'[h].cmd])) = 1]_vars
\* The entries of a history that fall in the window of the day: those dated
\* on or after the day seven days before it, by the calendar.
InLastWeek(es, day) ==
    LET Keep(e) == e.day >= day - WindowDays IN SelectSeq(es, Keep)

\* The sum of the values of the entries of a history dated d.
DayTotal(es, d) ==
    Sum([i \in DOMAIN es |-> IF es[i].day = d THEN es[i].val ELSE 0])

\* The elements of a set of numbers in ascending order.
RECURSIVE Ascending(_)
Ascending(S) ==
    IF S = {} THEN <<>>
    ELSE LET m == CHOOSE x \in S : \A y \in S : x <= y
         IN  << m >> \o Ascending(S \ {m})

\* The days on which a history has an entry.
DaysOf(es) == {es[i].day : i \in DOMAIN es}

\* The dict /weekly_trend builds for a log column.
DailyOf(col, df, u, now) ==
    CASE col = "water_log" -> daily_water(df, u, now)
      [] col = "sleep_log" -> daily_sleep(df, u, now)
      [] col = "calorie_log" -> daily_calories(df, u, now)
      [] col = "workout_log" -> daily_workouts(df, u, now)
      [] col = "stress_log" -> daily_stress(df, u, now)

\* The dict /weekly_trend would build now for a user with a row.
DailyNow(col, u) ==
    DailyOf(col, read_csv(csv), u, [day |-> clock, hour |-> 9, minute |-> 0])

HasRow(u) == ~NoRow(read_csv(csv), u)

\* C7. Chronological buckets: for every log reachable through the log
\* commands, the keys of the daily-totals mapping of /weekly_trend are the
\* in-window dates that have an entry, each once, in ascending calendar
\* order: the first bucket is the earliest such date, the last the latest,
\* and a date without entries has no bucket.
C7_ChronologicalBuckets ==
    \A u \in Users, col \in LogColumns :
        HasRow(u) =>
            LET daily == DailyNow(col, u)
                days == Ascending(DaysOf(InLastWeek(logged[u][col], clock)))
            IN  /\ Len(daily) = Len(days)
                /\ \A i \in DOMAIN daily : daily[i][1] = strftime(days[i])
                /\ \A i, j \in DOMAIN daily : i < j => StrLess(daily[i][1], daily[j][1])

\* /weekly_trend has replied for a user whose water log holds, after the
\* entry found on the disk, entries logged on two later days.
C7_Witness ==
    \E h \in TaskIds :
        /\ tasks[h].pc = "reply"
        /\ tasks[h].reply.kind = "Trend"
        /\ Len(DailyNow("water_log", tasks[h].user_id)) = 3
        /\ Len(logged[tasks[h].user_id]["water_log"]) = 3

\* Every bucket of every dict is the total of the in-window entries of its
\* date: the sum of their values, or their number for workouts.
DailyTotalsRight ==
    \A u \in Users, col \in LogColumns :
        HasRow(u) =>
            LET daily == DailyNow(col, u)
                es == InLastWeek(logged[u][col], clock)
            IN  /\ \A d \in DaysOf(es) :
                       \E i \in DOMAIN daily :
                           daily[i] = << strftime(d), DayTotal(es, d) >>
                /\ \A i \in DOMAIN daily :
                       \E d \in DaysOf(es) : daily[i][1] = strftime(d)

\* The total a /log_water or /log_calories replies with is the sum of the
\* user's entries dated today, the new one included.
TodaysTotalRight ==
    \A h \in TaskIds, u \in Users, col \in {"water_log", "calorie_log"} :
        LoggedNow(h, u, col) =>
            tasks'[h].reply.total = DayTotal(logged'[u][col], clock)

\* C8. Daily totals: in /weekly_trend the bucket of a date is the sum of the
\* values of all in-window entries of that date (their number for
\* workouts), two entries of one date both counted; and the "Today's total"
\* of /log_water and /log_calories is the sum of all the user's entries
\* dated today, including the one just logged.
C8_DailyTotals ==
    []DailyTotalsRight /\ [][TodaysTotalRight]_vars

\* A /log_water has replied with a total that counts an earlier entry of the
\* same day, and the day's bucket holds that total.
C8_Witness ==
    \E h \in TaskIds :
        /\ tasks[h].pc = "reply"
        /\ tasks[h].cmd = "log_water"
        /\ tasks[h].reply.kind = "Logged"
        /\ tasks[h].day = clock
        /\ tasks[h].reply.total = 2 * ParseInt(tasks[h].args[1])
        /\ LET daily == DailyNow("water_log", tasks[h].user_id)
           IN  daily[Len(daily)] = << strftime(clock), tasks[h].reply.total >>

(***************************************************************************)
(* Properties of the aggregation commands (SpecAgg).                       *)
(***************************************************************************)
\* The in-window entries of the history of a log of the user of task h.
Recent(h, col) == InLastWeek(logged[tasks[h].user_id][col], tasks[h].day)

\* The sum of the values of a history.
TotalOf(es) == Sum([i \in DOMAIN es |-> es[i].val])

\* The sum of the values over the number of distinct dates; 0 without one.
DailyAverage(es) ==
    IF es = <<>> THEN [num |-> 0, den |-> 1]
    ELSE [num |-> TotalOf(es), den |-> Cardinality(DaysOf(es))]

\* C4. Summary math: /health_summary reports for water, sleep and stress
\* the sum of the in-window values divided by the number of distinct dates
\* with an in-window entry, 0 for a metric without one, the plain sum for
\* calories and the number of in-window entries for workouts.
C4_SummaryMath ==
    \A h \in TaskIds :
        tasks[h].reply.kind = "Summary" =>
            /\ tasks[h].reply.avg_water = DailyAverage(Recent(h, "water_log"))
            /\ tasks[h].reply.avg_sleep = DailyAverage(Recent(h, "sleep_log"))
            /\ tasks[h].reply.avg_stress = DailyAverage(Recent(h, "stress_log"))
            /\ tasks[h].reply.calorie_total = TotalOf(Recent(h, "calorie_log"))
            /\ tasks[h].reply.workout_count = Len(Recent(h, "workout_log"))

\* The summary of water entries (d1,500),(d1,700),(d2,1000): 2200 over 2
\* days, that is 1100.
C4_Witness ==
    \E h \in TaskIds :
        /\ tasks[h].reply.kind = "Summary"
        /\ LET es == logged[tasks[h].user_id]["water_log"]
           IN  /\ Len(es) = 3
               /\ << es[1].val, es[2].val, es[3].val >> = << 500, 700, 1000 >>
               /\ es[1].day = es[2].day /\ es[2].day < es[3].day
               /\ es[1].day >= tasks[h].day - WindowDays
        /\ tasks[h].reply.avg_water = [num |-> 2 * 1100, den |-> 2]

\* The first and last in-window dates of a history that has one.
FirstDayOf(es) == CHOOSE d \in DaysOf(es) : \A e \in DaysOf(es) : d <= e

LastDayOf(es) == CHOOSE d \in DaysOf(es) : \A e \in DaysOf(es) : d >= e

\* The last day's total is above (below, if falling is better) the first's.
Better(es, falling) ==
    IF falling
    THEN DayTotal(es, LastDayOf(es)) < DayTotal(es, FirstDayOf(es))
    ELSE DayTotal(es, LastDayOf(es)) > DayTotal(es, FirstDayOf(es))

\* The word of a metric for "better" and for "stable", and whether falling
\* is better.
TrendWords ==
    [water_log |-> << "Improving", "Stable or declining", FALSE >>,
     sleep_log |-> << "Improving", "Stable or declining", FALSE >>,
     calorie_log |-> << "Decreasing", "Stable or increasing", TRUE >>,
     workout_log |-> << "More active", "Stable or less active", FALSE >>,
     stress_log |-> << "Improving", "Stable or worsening", TRUE >>]

\* The class a /weekly_trend reply gives a log.
TrendField(reply, col) ==
    CASE col = "water_log" -> reply.water
      [] col = "sleep_log" -> reply.sleep
      [] col = "calorie_log" -> reply.calories
      [] col = "workout_log" -> reply.workouts
      [] col = "stress_log" -> reply.stress

\* C5. Trend polarity: a metric with entries on at least two distinct
\* in-window dates is classified by the totals of its first and last date
\* alone: better iff the last is above the first (below, for calories and
\* stress), else the metric's stable branch.
C5_TrendPolarity ==
    \A h \in TaskIds, col \in LogColumns :
        (/\ tasks[h].reply.kind = "Trend"
         /\ Cardinality(DaysOf(Recent(h, col))) >= 2)
        => TrendField(tasks[h].reply, col) =
               IF Better(Recent(h, col), TrendWords[col][3])
               THEN TrendWords[col][1] ELSE TrendWords[col][2]

\* Stress on three in-window dates falls from the first to the second and
\* stays there: Improving, by the first and the last date.
C5_Witness ==
    \E h \in TaskIds :
        /\ tasks[h].reply.kind = "Trend"
        /\ tasks[h].reply.stress = "Improving"
        /\ LET es == Recent(h, "stress_log")
           IN  /\ Len(es) = 3
               /\ Cardinality(DaysOf(es)) = 3
               /\ es[2].val = es[3].val

\* C6. Trend edge cases: a metric with no in-window entry is classified
\* NoData, and one whose in-window entries all fall on one date gets its
\* stable branch, whatever the other four logs hold.
C6_TrendEdgeCases ==
    \A h \in TaskIds, col \in LogColumns :
        tasks[h].reply.kind = "Trend" =>
            /\ Recent(h, col) = <<>> => TrendField(tasks[h].reply, col) = "NoData"
            /\ Cardinality(DaysOf(Recent(h, col))) = 1
                   => TrendField(tasks[h].reply, col) = TrendWords[col][2]

\* One reply with water on a single date (two entries), no sleep data and
\* stress on two dates.
C6_Witness ==
    \E h \in TaskIds :
        /\ tasks[h].reply.kind = "Trend"
        /\ Len(Recent(h, "water_log")) = 2
        /\ Cardinality(DaysOf(Recent(h, "water_log"))) = 1
        /\ tasks[h].reply.water = "Stable or declining"
        /\ Len(logged[tasks[h].user_id]["water_log"]) = 3
        /\ tasks[h].reply.sleep = "NoData"
        /\ tasks[h].reply.stress = "Improving"

\* C9. Window filter: /health_summary, /weekly_trend and the fitness branch
\* of /goal_progress count exactly the entries dated on or after the
\* calendar date seven days before now, and the comparison of the stored
\* date text with the start text agrees with the calendar.
C9_WindowFilter ==
    \A h \in TaskIds :
        LET r == tasks[h].reply
            u == tasks[h].user_id
            since == start_date([day |-> tasks[h].day, hour |-> 9, minute |-> 0])
        IN  /\ r.kind = "Summary" =>
                   /\ r.workout_count = Len(Recent(h, "workout_log"))
                   /\ r.calorie_total = TotalOf(Recent(h, "calorie_log"))
                   /\ \A col \in {"water_log", "sleep_log", "stress_log"} :
                          LET a == CASE col = "water_log" -> r.avg_water
                                     [] col = "sleep_log" -> r.avg_sleep
                                     [] col = "stress_log" -> r.avg_stress
                          IN  a.num = TotalOf(Recent(h, col))
            /\ r.kind = "Trend" =>
                   \A col \in LogColumns :
                       TrendField(r, col) = "NoData" <=> Recent(h, col) = <<>>
            /\ (r.kind = "Goal" /\ r.policy = "fitness") =>
                   r.value = Len(Recent(h, "workout_log"))
            /\ r.kind \in {"Summary", "Trend", "Goal"} =>
                   \A col \in LogColumns : \A i \in DOMAIN logged[u][col] :
                       InWindow(EntryText(col, logged[u][col][i]), since)
                           <=> logged[u][col][i].day >= tasks[h].day - WindowDays

\* /goal_progress counts one workout of two: one on the first day of the
\* window, one the day before.
C9_Witness ==
    \E h \in TaskIds :
        /\ tasks[h].reply.kind = "Goal"
        /\ tasks[h].reply.policy = "fitness"
        /\ tasks[h].reply.value = 1
        /\ LET es == logged[tasks[h].user_id]["workout_log"]
           IN  /\ Len(es) = 2
               /\ es[1].day = tasks[h].day - WindowDays - 1
               /\ es[2].day = tasks[h].day - WindowDays

(***************************************************************************)
(* Properties of the whole bot (SpecBot).                                  *)
(***************************************************************************)
\* The commands that need a profile.
NeedsProfile ==
    {"remind", "progress", "update_progress", "bmi", "feedback", "report_issue",
     "export_data", "health_summary", "weekly_trend", "goal_progress"}
        \cup DOMAIN LogCommand

\* C10. Profile required: a command that needs a profile, sent with
\* arguments it accepts by a user for whom /profile has never succeeded, is
\* answered with the NotFound reply, whatever that user sent before.
C10_ProfileRequired ==
    [][\A h \in TaskIds :
          (/\ tasks[h].pc = "idle"
           /\ tasks'[h].pc # "idle"
           /\ tasks'[h].cmd \in NeedsProfile
           /\ tasks'[h].user_id \notin profiled
           /\ tasks'[h].reply # Usage)
          => tasks'[h].reply = NotFound]_vars

(***************************************************************************)
(* SpecStore: what the commands do to the file.  The table is new, or was  *)
(* left on the persistent disk with a row for user 1 in which every field  *)
(* holds a text.  The updates are commands with arguments the handlers     *)
(* reject, the commands that only read the table, and a few that write it. *)
(***************************************************************************)
\* The row of user 1 found on the disk.
FoundRow ==
    [RowOf(1, << "fitness" >>, SeededLogs) EXCEPT
        !.reminders = << "w", "a", "l", "k", " at ", "0", "9", ":", "0", "0" >>,
        !.progress = << "-", "2", "k", "g" >>,
        !.feedback = << "good" >>,
        !.conversation = << "User: ", "hi", "\nBot: ",
                            "Consult a doctor if symptoms persist." >>]

\* The other profile of the model.
ProfileArgs2 == << << "Bo" >>, << "8", "0", ".", "5" >>, << "1", "8", "0" >>,
                   << "WEIGHT_LOSS" >> >>

\* Commands whose arguments the handlers do not accept.
RejectedUpdates ==
    { << "profile", << << "Al" >>, << "7", "0" >>, << "1", "7", "5" >> >> >>,
      << "profile", << << "Al" >>, << "x" >>, << "1", "7", "5" >>, << "fitness" >> >> >>,
      << "profile", << << "Al" >>, << "7", "0" >>, << "x" >>, << "fitness" >> >> >>,
      << "remind", << << "0", "9", ":", "0", "0" >> >> >>,
      << "update_progress", <<>> >>,
      << "feedback", <<>> >>,
      << "report_issue", <<>> >>,
      << "wearable_data", << << "9" >> >> >>,
      << "wearable_data", << << "9" >>, << "x" >> >> >>,
      << "log_water", <<>> >>,
      << "log_water", << << "a" >> >> >>,
      << "log_water", << << "-", "5" >> >> >>,
      << "log_sleep", <<>> >>,
      << "log_sleep", << << "x" >> >> >>,
      << "log_sleep", << << "1", ".", "2", ".", "3" >> >> >>,
      << "log_calories", << << "4", "0", "0" >> >> >>,
      << "log_calories", << << "x" >>, << "s" >> >> >>,
      << "log_workout", <<>> >>,
      << "log_stress", <<>> >>,
      << "log_stress", << << "x" >> >> >>,
      << "log_stress", << << "0" >> >> >>,
      << "log_stress", << << "6" >> >> >> }

\* The commands that only read the table.
ReadUpdates ==
    { << "start", <<>> >>, << "health_tip", <<>> >>, << "motivate", <<>> >>,
      << "progress", <<>> >>, << "bmi", <<>> >>, << "export_data", <<>> >>,
      << "health_summary", <<>> >>, << "weekly_trend", <<>> >>,
      << "goal_progress", <<>> >> }

\* Commands that write the table when the user has a row.
WriteUpdates ==
    { << "profile", ProfileArgs >>,
      << "profile", ProfileArgs2 >>,
      << "update_progress", << << "1", "k", "g" >> >> >>,
      << "log_water", << << "7", "0", "0" >> >> >>,
      << "log_stress", << << "5" >> >> >> }

InitStore ==
    /\ clock = FirstDay
    /\ main = "polling"
    /\ running = TRUE
    /\ tasks = [h \in TaskIds |-> IdleTask]
    /\ \/ /\ csv = <<>>
          /\ logged = [u \in Users |-> NoEntries]
          /\ profiled = {}
       \/ /\ csv = << FoundRow >>
          /\ logged = [u \in Users |-> IF u = 1 THEN SeededLogs ELSE NoEntries]
          /\ profiled = {1}

NextStore ==
    \/ Receive({1}, Users, RejectedUpdates, {Morning})
    \/ Receive({1}, Users, ReadUpdates, {Morning})
    \/ Receive({1}, Users, WriteUpdates, {Morning})
    \/ \E h \in TaskIds : Finish(h)

SpecStore == InitStore /\ [][NextStore]_vars

\* The arguments are ones the command's usage text rules out: too few of
\* them, or a number that is not one.
Malformed(cmd, args) ==
    CASE cmd = "profile" ->
             \/ Len(args) < 4
             \/ ~IsSignedFloat(args[2])
             \/ ~IsSignedFloat(args[3])
      [] cmd = "remind" -> Len(args) < 2
      [] cmd \in {"update_progress", "feedback", "report_issue", "log_workout"} ->
             Join(args, << " " >>) = <<>>
      [] cmd = "wearable_data" ->
             \/ Len(args) < 2
             \/ ~IsIntLiteral(args[1])
             \/ ~IsIntLiteral(args[2])
      [] cmd = "log_water" -> args = <<>> \/ ~IsDigit(args[1])
      [] cmd = "log_sleep" -> args = <<>> \/ ~IsFloatLiteral(args[1])
      [] cmd = "log_calories" -> Len(args) < 2 \/ ~IsDigit(args[1])
      [] cmd = "log_stress" ->
             \/ args = <<>>
             \/ ~IsDigit(args[1])
             \/ ParseInt(args[1]) < 1
             \/ ParseInt(args[1]) > 5
      [] OTHER -> FALSE

\* Task h has run a handler in this step.
Handled(h) == tasks[h].pc = "idle" /\ tasks'[h].pc # "idle"

\* C11. Rejected commands change nothing: a command with missing or
\* malformed arguments, and a command answered with the usage text or with
\* "Set your profile first", leaves the file as it was.
C11_RejectedChangeNothing ==
    [][\A h \in TaskIds :
          (/\ Handled(h)
           /\ \/ Malformed(tasks'[h].cmd, tasks'[h].args)
              \/ tasks'[h].reply \in {Usage, NotFound})
          => csv' = csv]_vars

\* /log_stress 6 of a user whose stress log holds an entry has been
\* answered with the usage text.
C11_Witness ==
    \E h \in TaskIds :
        /\ tasks[h].pc = "reply"
        /\ tasks[h].cmd = "log_stress"
        /\ tasks[h].args = << << "6" >> >>
        /\ tasks[h].reply = Usage
        /\ EntriesOf(csv, tasks[h].user_id, "stress_log") # <<>>

(***************************************************************************)
(* SpecText: the free text of /log_calories and /log_workout.  User 1 has  *)
(* the row found on the disk; the meal and the workout description are     *)
(* plain, or hold the ';' that separates the entries of a log, or the ':'  *)
(* that separates the fields of an entry.                                  *)
(***************************************************************************)
TextUpdates ==
    { << "log_calories", << << "4", "0", "0" >>, << "s" >> >> >>,
      << "log_calories", << << "4", "0", "0" >>, << "s", ";", "x" >> >> >>,
      << "log_calories", << << "4", "0", "0" >>, << "s", ":", "x" >> >> >>,
      << "log_workout", << << "g" >> >> >>,
      << "log_workout", << << "g", ";", "x" >> >> >>,
      << "log_workout", << << "g", ":", "x" >> >> >>,
      << "log_sleep", << << "7", ".", "5" >> >> >>,
      << "health_summary", <<>> >>,
      << "weekly_trend", <<>> >>,
      << "goal_progress", <<>> >> }

InitText ==
    /\ clock = FirstDay
    /\ main = "polling"
    /\ running = TRUE
    /\ tasks = [h \in TaskIds |-> IdleTask]
    /\ csv = << FoundRow >>
    /\ logged = [u \in Users |-> IF u = 1 THEN SeededLogs ELSE NoEntries]
    /\ profiled = {1}

NextText ==
    \/ Receive({1}, {1}, TextUpdates, {Morning})
    \/ \E h \in TaskIds : Finish(h)

SpecText == InitText /\ [][NextText]_vars

\* C12. Malformed stored entries do not crash aggregation: whatever the log
\* commands have stored, /health_summary, /weekly_trend and /goal_progress
\* do not raise, and the summary still counts every entry that was logged
\* in the window: the sum of their calories and the number of workouts.
C12_AggregationCompletes ==
    \A h \in TaskIds :
        /\ tasks[h].cmd \in {"health_summary", "weekly_trend", "goal_progress"}
               => tasks[h].pc # "raised"
        /\ tasks[h].reply.kind = "Summary"
               => /\ tasks[h].reply.calorie_total = TotalOf(Recent(h, "calorie_log"))
                  /\ tasks[h].reply.workout_count = Len(Recent(h, "workout_log"))

\* The fields of a stored token: token.split(':').
FieldsOf(token) == Split(token, ":")

\* The fields an entry was logged with: the date, the value as the command
\* prints it, and the free text.
FieldsLogged(col, e) ==
    CASE col = "water_log" -> << strftime(e.day), IntToStr(e.val) >>
      [] col = "sleep_log" -> << strftime(e.day), FloatToStr(e.val) >>
      [] col = "calorie_log" -> << strftime(e.day), IntToStr(e.val), e.extra >>
      [] col = "workout_log" -> << strftime(e.day), e.extra >>
      [] col = "stress_log" -> << strftime(e.day), IntToStr(e.val) >>

\* C13. Entry round-trip: splitting a log of the file on ';' gives one token
\* for each entry that was logged, in order, and splitting the token on ':'
\* gives back the date, the value and the free text of that entry.
C13_EntryRoundTrip ==
    \A u \in Users, col \in LogColumns :
        LET tokens == EntriesOf(csv, u, col)
        IN  /\ Len(tokens) = Len(logged[u][col])
            /\ \A i \in DOMAIN tokens :
                   i \in DOMAIN logged[u][col]
                       => FieldsOf(tokens[i]) = FieldsLogged(col, logged[u][col][i])

(***************************************************************************)
(* SpecRemind: reminders and text messages.  User 1 has the row found on   *)
(* the disk, with one or two reminders in it as /remind builds them; user  *)
(* 2 has the row /profile has made.  User 1 sets more reminders and sends  *)
(* text messages at 09:00 and at 09:01; user 2 sets reminders.             *)
(***************************************************************************)
MaxChat == 3
MaxReminders == 3

\* The arguments of /remind: <task> at <HH:MM>, with a time that is one, a
\* time without leading zeros, an hour that is none, and a word.
RemindArgs ==
    { << << "w", "a", "l", "k" >>, << "a", "t" >>, << "0", "9", ":", "0", "0" >> >>,
      << << "p", "i", "l", "l" >>, << "a", "t" >>, << "0", "9", ":", "0", "1" >> >>,
      << << "r", "u", "n" >>, << "a", "t" >>, << "9", ":", "0" >> >>,
      << << "n", "a", "p" >>, << "a", "t" >>, << "2", "5", ":", "0", "0" >> >>,
      << << "t", "e", "a" >>, << "a", "t" >>, << "n", "o", "o", "n" >> >> }

\* The reminder /remind stores for its arguments.
ReminderText(args) ==
    Join(SubSeq(args, 1, Len(args) - 2), << " " >>) \o << " at " >> \o args[Len(args)]

\* The reminders stored for a user, as generate_response splits them.
RemindersOf(file, u) ==
    LET df == read_csv(file)
    IN  IF NoRow(df, u) THEN <<>> ELSE LogTokens(Cell(df, u, "reminders"))

RemindUpdates ==
    { << "remind", a >> : a \in RemindArgs }
        \cup { << "text", << "hi" >> >>, << "text", << "water" >> >> }

InitRemind ==
    /\ clock = FirstDay
    /\ main = "polling"
    /\ running = TRUE
    /\ tasks = [h \in TaskIds |-> IdleTask]
    /\ logged = [u \in Users |-> IF u = 1 THEN SeededLogs ELSE NoEntries]
    /\ profiled = {1, 2}
    /\ \E a \in RemindArgs, rest \in {<<>>} \cup {<< b >> : b \in RemindArgs} :
           LET found == [FoundRow EXCEPT !.reminders =
                            Join(<< ReminderText(a) >>
                                     \o [i \in DOMAIN rest |-> ReminderText(rest[i])],
                                 << ";" >>)]
               now == [day |-> FirstDay, hour |-> 9, minute |-> 0]
           IN  csv = profile(2, ProfileArgs2, << found >>, now).csv

\* An update of SpecRemind is handled while the reminders and the
\* conversation are within the bounds of the model.
Remind(h, u, cmd, args, t) ==
    /\ cmd = "remind" => Len(RemindersOf(csv, u)) < MaxReminders
    /\ cmd = "text" => Turns(u) < MaxChat
    /\ Run(h, u, cmd, args, t)

NextRemind ==
    \/ \E c \in RemindUpdates, t \in Times : Remind(1, 1, c[1], c[2], t)
    \/ \E a \in RemindArgs : Remind(1, 2, "remind", a, Morning)
    \/ \E h \in TaskIds : Finish(h)

SpecRemind == InitRemind /\ [][NextRemind]_vars

\* text ends with suffix.
EndsWith(text, suffix) ==
    /\ Len(text) >= Len(suffix)
    /\ SubSeq(text, Len(text) - Len(suffix) + 1, Len(text)) = suffix

\* The reminder is set for the hour and minute t: it ends with " at " and
\* the hour and the minute, each written with or without a leading zero.
SetFor(reminder, t) ==
    \E hh \in {NatToStr(t[1]), Pad2(t[1])}, mm \in {NatToStr(t[2]), Pad2(t[2])} :
        EndsWith(reminder, << " at " >> \o hh \o << ":" >> \o mm)

\* The number of reminders a text surfaces.
Surfaced(text) == Cardinality({i \in DOMAIN text : text[i] = "\nReminder: "})

\* C14. Reminder exact-minute match: the reply to a text message surfaces
\* a stored reminder iff the reminder is set for the hour and the minute of
\* now, and the handling of the message leaves the stored reminders as they
\* were.
C14_ReminderExactMinute ==
    [][\A h \in TaskIds :
          (Handled(h) /\ tasks'[h].cmd = "text" /\ tasks'[h].reply.kind = "Response")
          => LET stored == RemindersOf(csv, tasks'[h].user_id)
                 response == tasks'[h].reply.response
                 due == {i \in DOMAIN stored : SetFor(stored[i], tasks'[h].time)}
             IN  /\ RemindersOf(csv', tasks'[h].user_id) = stored
                 /\ \A i \in DOMAIN stored :
                        Contains(response, << "\nReminder: " >> \o stored[i])
                            <=> i \in due
                 /\ Surfaced(response) = Cardinality(due)]_vars

\* Two messages handled at 09:00 have both surfaced the one stored reminder,
\* "walk at 09:00", which is still stored.
C14_Witness ==
    \E h \in TaskIds :
        /\ tasks[h].pc = "reply"
        /\ tasks[h].cmd = "text"
        /\ tasks[h].time = << 9, 0 >>
        /\ Surfaced(tasks[h].reply.response) = 1
        /\ RemindersOf(csv, tasks[h].user_id) =
               << << "w", "a", "l", "k", " at ", "0", "9", ":", "0", "0" >> >>
        /\ Surfaced(Cell(read_csv(csv), tasks[h].user_id, "conversation")) = 2

\* C15. Malformed reminders: /remind with a task and a time appends the
\* reminder to the stored ones of a user who has a row, whatever the time
\* text is; and a text message of a user with stored reminders is answered
\* and surfaces every stored reminder set for now, whatever the other
\* stored reminders are.
C15_MalformedReminders ==
    [][\A h \in TaskIds :
          LET u == tasks'[h].user_id
              stored == RemindersOf(csv, u)
          IN  /\ (/\ Handled(h)
                  /\ tasks'[h].cmd = "remind"
                  /\ Len(tasks'[h].args) >= 2
                  /\ ~NoRow(read_csv(csv), u))
                 => RemindersOf(csv', u)
                        = Append(stored, ReminderText(tasks'[h].args))
              /\ (Handled(h) /\ tasks'[h].cmd = "text" /\ stored # <<>>)
                 => /\ tasks'[h].pc = "reply"
                    /\ \A i \in DOMAIN stored :
                           SetFor(stored[i], tasks'[h].time)
                               => Contains(tasks'[h].reply.response,
                                           << "\nReminder: " >> \o stored[i])]_vars

(***************************************************************************)
(* Properties of the records (SpecBot, SpecStore).                         *)
(***************************************************************************)
\* The file holds a row for the user.
HasRowIn(file, u) == ~NoRow(read_csv(file), u)

\* C16. Records are never deleted: a user who has a row in the file has one
\* after every step, whoever sent the update and whatever it was.
C16_NeverDeleted ==
    [][\A u \in Users : HasRowIn(csv, u) => HasRowIn(csv', u)]_vars

\* /export_data of one user has sent its document; the rows of both users
\* are in the file.
C16_Witness ==
    /\ \A u \in Users : HasRowIn(csv, u)
    /\ \E h \in TaskIds :
           /\ tasks[h].pc = "reply"
           /\ tasks[h].cmd = "export_data"
           /\ tasks[h].reply.kind = "Document"

\* The fields /profile does not set.
KeptColumns ==
    LogColumns \cup {"reminders", "progress", "feedback", "conversation"}

\* The number of rows the file holds for a user.
RowCount(file, u) == Cardinality({i \in DOMAIN file : file[i].user_id = u})

ReadOnly ==
    {"progress", "bmi", "health_summary", "weekly_trend", "goal_progress", "start"}

\* The commands that read nothing and answer with a text chosen at random.
ByChance == {"health_tip", "motivate"}

\* Task h has run a command of the set in this step and left the file as it
\* was.
StoreKept(h, cmds) == (Handled(h) /\ tasks'[h].cmd \in cmds) => csv' = csv

\* Task h has run a command of the set in this step, and the reply it gave
\* is the only one the command can give on this table at this time.
SameResult(h, cmds) ==
    (Handled(h) /\ tasks'[h].cmd \in cmds)
    => Outcomes(tasks'[h].user_id, tasks'[h].cmd, tasks'[h].args, csv,
                [day |-> clock, hour |-> tasks'[h].time[1],
                 minute |-> tasks'[h].time[2]]) = {tasks'[h].reply}

Goals ==
    { << "weight_loss" >>, << "lose_weight" >>, << "WEIGHT_LOSS" >>,
      << "Lose_Weight" >>, << "fitness" >>, << "get_fit" >>, << "Fitness" >>,
      << "muscle" >>, << "weight" >>, << "NA" >> }

\* The texts given to /update_progress: -2.3kg, 1kg, 2 kg, 1KG, kg,
\* "feeling good", xkg.
Progresses ==
    { << << "-", "2", ".", "3", "k", "g" >> >>,
      << << "1", "k", "g" >> >>,
      << << "2" >>, << "k", "g" >> >>,
      << << "1", "K", "G" >> >>,
      << << "k", "g" >> >>,
      << << "feeling" >>, << "good" >> >>,
      << << "x", "k", "g" >> >> }

GoalUpdates ==
    { << "profile", << << "Al" >>, << "7", "0" >>, << "1", "7", "5" >>, g >> >> :
          g \in Goals }
        \cup { << "update_progress", p >> : p \in Progresses }
        \cup { << "goal_progress", <<>> >> }

NextGoal ==
    \/ Receive({1}, {1}, GoalUpdates, {Morning})
    \/ \E h \in TaskIds : Finish(h)

SpecGoal == InitStore /\ [][NextGoal]_vars

\* The policy the claim gives a goal.
PolicyOf(goal) ==
    IF Lower(goal) \in {<< "weight_loss" >>, << "lose_weight" >>} THEN "weight"
    ELSE IF Lower(goal) \in {<< "fitness" >>, << "get_fit" >>} THEN "fitness"
    ELSE "custom"

\* Task h has run /goal_progress in this step for a user who has a row.
GoalAsked(h) ==
    /\ Handled(h)
    /\ tasks'[h].cmd = "goal_progress"
    /\ HasRowIn(csv, tasks'[h].user_id)

\* C19. Goal dispatch: /goal_progress of a user with a stored goal is
\* answered with the policy of that goal: the weight change for weight_loss
\* and lose_weight, the number of workout entries of the last seven days for
\* fitness and get_fit, the custom-goal text for any other goal, upper or
\* lower case.
C19_GoalDispatch ==
    [][\A h \in TaskIds :
          (GoalAsked(h) /\ Cell(csv, tasks'[h].user_id, "goal") # <<>>)
          => /\ tasks'[h].reply.kind = "Goal"
             /\ tasks'[h].reply.policy = PolicyOf(Cell(csv, tasks'[h].user_id, "goal"))
             /\ tasks'[h].reply.policy = "fitness"
                    => tasks'[h].reply.value
                           = Len(InLastWeek(logged[tasks'[h].user_id]["workout_log"],
                                            clock))]_vars

\* The progress is a number followed by "kg": the value of the number in
\* tenths, or none.
WeightChanges(p) ==
    {ParseSignedFloat(Strip(SubSeq(p, 1, i - 1))) :
        i \in {k \in 1..(Len(p) - 1) :
                 /\ SubSeq(p, k, k + 1) = << "k", "g" >>
                 /\ \A j \in 1..(k - 1) : SubSeq(p, j, j + 1) # << "k", "g" >>
                 /\ IsSignedFloat(Strip(SubSeq(p, 1, k - 1)))}}

\* C20. Weight-loss progress: for a goal of weight_loss or lose_weight,
\* /goal_progress is answered, with the weight change when the stored
\* progress is a number followed by "kg", and with no (valid) weight change
\* logged when the progress is empty or is no such text.
C20_WeightLossProgress ==
    [][\A h \in TaskIds :
          (/\ GoalAsked(h)
           /\ PolicyOf(Cell(csv, tasks'[h].user_id, "goal")) = "weight")
          => LET p == Cell(csv, tasks'[h].user_id, "progress")
                 r == tasks'[h].reply
             IN  /\ r.kind = "Goal"
                 /\ r.policy = "weight"
                 /\ IF WeightChanges(p) # {}
                    THEN r.detail = "change" /\ r.value \in WeightChanges(p)
                    ELSE r.detail \in {"none", "no valid"}]_vars

(***************************************************************************)
(* SpecNotes: the free-form fields (reminders, feedback, conversation) and *)
(* the quiz, for two users and two handler tasks, on a table that is new   *)
(* or holds the row found on the disk for user 1.                          *)
(***************************************************************************)
MaxNotes == 2

\* The texts of a ';' separated cell of the user's row in the file.
NotesOf(file, u, col) ==
    IF NoRow(read_csv(file), u) THEN <<>> ELSE Split(Cell(file, u, col), ";")

\* An update of SpecNotes is handled while the fields are within the bounds
\* of the model.
Note(h, u, cmd, args) ==
    /\ cmd = "remind" => Len(NotesOf(csv, u, "reminders")) < MaxNotes
    /\ cmd \in {"feedback", "report_issue"}
           => Len(NotesOf(csv, u, "feedback")) < MaxNotes
    /\ cmd \in TalkCommands => Turns(u) < MaxChat
    /\ Run(h, u, cmd, args, Morning)

\* User 1 sends the updates of SpecNotes to one task; user 2 sets a
\* profile, starts the quiz and sends a message, handled by the other task.
NextNotes ==
    LET NoteUpdates ==
        { << "profile", ProfileArgs >>,
          << "remind", << << "p", "i", "l", "l" >>, << "a", "t" >>,
                          << "0", "9", ":", "0", "1" >> >> >>,
          << "feedback", << << "ok" >> >> >>,
          << "report_issue", << << "bug" >> >> >>,
          << "health_quiz", <<>> >>,
          << "text", << "7" >> >>,
          << "text", HealthQuiz >> }
    IN  \/ \E c \in NoteUpdates : Note(1, 1, c[1], c[2])
        \/ \E c \in {<< "profile", ProfileArgs2 >>, << "health_quiz", <<>> >>,
                      << "text", << "hi" >> >>} : Note(2, 2, c[1], c[2])
        \/ \E h \in TaskIds : Finish(h)

SpecNotes == InitStore /\ [][NextNotes]_vars

\* The field of the user's row in the file; empty for a user without a row.
Field(file, u, col) == IF HasRowIn(file, u) THEN Cell(file, u, col) ELSE <<>>

\* Task h has handled cmd in this step and sends a reply of the kind.
Replied(h, cmd, kind) ==
    /\ Handled(h)
    /\ tasks'[h].cmd = cmd
    /\ tasks'[h].reply.kind = kind

\* In this step text was put at the end of the field, after a ';' when the
\* field held a text before.
Appended(u, col, text) ==
    Field(csv', u, col)
        = (IF Field(csv, u, col) = <<>> THEN <<>> ELSE Field(csv, u, col) \o << ";" >>)
              \o text

\* In this step the turn was put at the end of the conversation of u.
TurnAppended(u, turn) ==
    Field(csv', u, "conversation") = Field(csv, u, "conversation") \o turn

\* The turn of a message and its response: the first turn of a row made for
\* it starts without a line break.
TurnOf(u, message, response) ==
    << IF HasRowIn(csv, u) THEN "\nUser: " ELSE "User: " >> \o message
        \o << "\nBot: " >> \o response

\* C21. Append-only free-form fields: a /remind that succeeds puts its
\* reminder at the end of the user's reminders, a /feedback that succeeds
\* its message and a /report_issue that succeeds "Issue: " and its
\* description at the end of the user's feedback, and a text message or a
\* /health_quiz that is answered puts its turn at the end of the user's
\* conversation; what the field held before stays in front of it.
C21_AppendOnlyFields ==
    [][\A h \in TaskIds :
          LET u == tasks'[h].user_id
              args == tasks'[h].args
          IN  /\ Replied(h, "remind", "ReminderSet")
                     => Appended(u, "reminders", ReminderText(args))
              /\ Replied(h, "feedback", "FeedbackThanks")
                     => Appended(u, "feedback", Join(args, << " " >>))
              /\ Replied(h, "report_issue", "IssueReported")
                     => Appended(u, "feedback",
                                 << "Issue: " >> \o Join(args, << " " >>))
              /\ (Replied(h, "text", "Response") \/ Replied(h, "text", "QuizAnswer"))
                     => TurnAppended(u, TurnOf(u, args, tasks'[h].reply.response))
              /\ (Replied(h, "health_quiz", "Quiz") /\ HasRowIn(csv, u))
                     => TurnAppended(u, << "\nBot: " >> \o QuizPrompt)]_vars

(***************************************************************************)
(* SpecBmi: /bmi after /profile with a weight and a height drawn from the  *)
(* values around the limits of the categories, for two users on a new      *)
(* table.                                                                  *)
(***************************************************************************)
\* /profile with a weight in kg and a height in cm, and /bmi.  At 175 cm
\* the limits 18.5, 25 and 30 lie between 56.6 and 56.7, 76.5 and 76.6,
\* 91.8 and 91.9 kg; at 200 cm they are 74, 100 and 120 kg.
BmiUpdates ==
    LET Weights ==
            { << "5", "6", ".", "6" >>, << "5", "6", ".", "7" >>, << "7", "0" >>,
              << "7", "4" >>, << "7", "6", ".", "5" >>, << "7", "6", ".", "6" >>,
              << "8", "9" >>, << "9", "1", ".", "8" >>, << "9", "1", ".", "9" >>,
              << "1", "0", "0" >>, << "1", "2", "0" >>, << "0" >> }
        Heights == { << "1", "7", "5" >>, << "2", "0", "0" >>, << "0" >> }
    IN  { << "profile", << << "Al" >>, w, h, << "fitness" >> >> >> :
              w \in Weights, h \in Heights }
            \cup { << "bmi", <<>> >> }

\* User 1 sets the weights and heights drawn; user 2 sets one other profile.
NextBmi ==
    \/ Receive({1}, {1}, BmiUpdates, {Morning})
    \/ Receive({1}, {2}, {<< "profile", ProfileArgs2 >>, << "bmi", <<>> >>}, {Morning})
    \/ \E h \in TaskIds : Finish(h)

SpecBmi == InitBot /\ [][NextBmi]_vars

\* The category the claim gives a weight and a height (in tenths of kg and
\* of cm): the BMI is w / (h/100)^2, compared without a division.
CategoryOf(w, h) ==
    IF w * 1000000 < 185 * h * h THEN "Underweight"
    ELSE IF w * 1000000 < 250 * h * h THEN "Normal"
    ELSE IF w * 1000000 < 300 * h * h THEN "Overweight"
    ELSE "Obese"

\* t, in tenths, is w / (h/100)^2 to one decimal: the two differ by at most
\* half a tenth.
BmiToOneDecimal(t, w, h) ==
    LET d == t * h * h - w * 1000000
    IN  d <= (h * h) \div 2 /\ 0 - d <= (h * h) \div 2

\* C22. BMI: /bmi reports, for the weight w and the height h stored for the
\* user, w / (h/100)^2 to one decimal, and the category Underweight below
\* 18.5, Normal from 18.5 and below 25, Overweight from 25 and below 30,
\* Obese otherwise; 70 kg and 175 cm give 22.9 and Normal.
C22_Bmi ==
    [][\A h \in TaskIds :
          Replied(h, "bmi", "Bmi")
          => LET u == tasks'[h].user_id
                 w == ParseFloat(Cell(csv, u, "weight"))
                 cm == ParseFloat(Cell(csv, u, "height"))
                 r == tasks'[h].reply
             IN  /\ r.category = CategoryOf(w, cm)
                 /\ cm > 0 => /\ IsFloatLiteral(r.text)
                              /\ BmiToOneDecimal(ParseFloat(r.text), w, cm)
                 /\ (w = 700 /\ cm = 1750)
                        => r.category = "Normal"
                           /\ r.text = << "2", "2", ".", "9" >>]_vars

\* /bmi has answered user 1, whose BMI is exactly at a limit and whose row
\* comes after the row of user 2, who has another weight and height.
C22_Witness ==
    \E h \in TaskIds :
        /\ tasks[h].pc = "reply"
        /\ tasks[h].cmd = "bmi"
        /\ tasks[h].reply.kind = "Bmi"
        /\ tasks[h].reply.category = "Normal"
        /\ tasks[h].reply.text = << "1", "8", ".", "5" >>
        /\ tasks[h].user_id = 1
        /\ HasRowIn(csv, 2)
        /\ csv[1].user_id = 2

\* The rows of user u as read_csv gives them.
RowsOf(file, u) ==
    LET df == read_csv(file)
    IN  [k \in 1..Cardinality({i \in DOMAIN df : df[i].user_id = u}) |->
            df[CHOOSE i \in DOMAIN df :
                   /\ df[i].user_id = u
                   /\ Cardinality({j \in 1..i : df[j].user_id = u}) = k]]

C24_OneRecordPerUser == \A u \in Users : RowCount(csv, u) <= 1

\* Both users have a row: that of user 2 made by /profile, that of user 1
\* made by a text message and then given a profile.
C24_Witness ==
    /\ \A u \in Users : RowCount(csv, u) = 1
    /\ csv[1].user_id = 2
    /\ csv[1].name = ProfileArgs2[1]
    /\ csv[2].name = ProfileArgs[1]
    /\ csv[2].conversation # <<>>
    /\ tasks[1].pc = "reply"
    /\ tasks[1].cmd = "profile"

\* The quiz prompt is recorded in the conversation of u.
QuizRecorded(file, u) ==
    HasRowIn(file, u) /\ Contains(Cell(file, u, "conversation"), QuizPrompt)

\* C25. Quiz session: a text message is answered as a quiz answer iff the
\* conversation of the user holds a quiz prompt and the message is all
\* digits; the answer is put at the end of the conversation and carries no
\* reminder.  A recorded quiz prompt stays recorded, and /health_quiz of a
\* user without a row sends the prompt and leaves the table as it was.
C25_QuizSession ==
    [][\A h \in TaskIds :
          Handled(h)
          => LET u == tasks'[h].user_id
                 r == tasks'[h].reply
             IN  /\ tasks'[h].cmd = "text"
                        => /\ r.kind = "QuizAnswer"
                                  <=> (QuizRecorded(csv, u) /\ IsDigit(tasks'[h].args))
                           /\ r.kind = "QuizAnswer"
                                  => /\ TurnAppended(u, TurnOf(u, tasks'[h].args, r.response))
                                     /\ Surfaced(r.response) = 0
                 /\ QuizRecorded(csv, u) => QuizRecorded(csv', u)
                 /\ (tasks'[h].cmd = "health_quiz" /\ ~HasRowIn(csv, u))
                        => r.kind = "Quiz" /\ csv' = csv]_vars

(***************************************************************************)
(* SpecPoll: the polling loop of main.  Updates are handled while an       *)
(* attempt is polling and the application runs; an attempt ends by         *)
(* returning or by raising an Exception, with the application running or   *)
(* not.                                                                    *)
(***************************************************************************)
\* await app.run_polling(...): the attempt begins and starts the
\* application.
run_polling ==
    /\ main = "try"
    /\ main' = "polling"
    /\ running' = TRUE
    /\ UNCHANGED << csv, clock, tasks, logged, profiled >>

\* The attempt ends: run_polling returns, or raises an Exception.
AttemptEnds ==
    /\ main = "polling"
    /\ \E outcome \in {"return", "raise"} :
           main' = IF outcome = "raise" THEN "except" ELSE "finally"
    /\ running' \in BOOLEAN
    /\ UNCHANGED << csv, clock, tasks, logged, profiled >>

\* except Exception: await asyncio.sleep(5), then the finally clause.
Sleep ==
    /\ main = "except"
    /\ main' = "finally"
    /\ UNCHANGED << csv, clock, tasks, logged, profiled, running >>

\* finally: stop and shut down if 'app' in globals() and app.running; then
\* the loop goes round.  app is a local name of main, never a global one.
Finally ==
    LET app_in_globals == FALSE
    IN  /\ main = "finally"
        /\ main' = "try"
        /\ running' = IF app_in_globals /\ running THEN FALSE ELSE running
        /\ UNCHANGED << csv, clock, tasks, logged, profiled >>

NextPoll ==
    \/ run_polling
    \/ main = "polling" /\ running /\ Receive({1}, Users, WriteUpdates, {Morning})
    \/ \E h \in TaskIds : Finish(h)
    \/ AttemptEnds
    \/ Sleep
    \/ Finally

SpecPoll == InitStore /\ [][NextPoll]_vars

\* C26. Polling retry loop: an attempt that ends, by returning or by
\* raising an Exception, is followed by the finally clause (after the sleep
\* in the Exception case) and then by the next attempt; and an application
\* that is still running when the attempt has ended is stopped and shut
\* down before the next attempt starts.
C26_PollingRetryLoop ==
    [][/\ (main = "polling" /\ main' # main) => main' \in {"except", "finally"}
       /\ (main = "except" /\ main' # main) => main' = "finally"
       /\ (main = "finally" /\ main' # main) => main' = "try" /\ ~running'
       /\ (main = "try" /\ main' # main) => main' = "polling"]_vars

====
